---- MODULE Spec2Model ----
(***************************************************************************)
(* Restriction-to-flow compiler of pps-game:                               *)
(* controller/RestrictionForTimeFrameController.py.                        *)
(*                                                                         *)
(* An edge of the time-space graph is the tuple                            *)
(*   <<source_id, dest_id, lower_bound, capacity, cost>>.                  *)
(* A restriction is the record form of the tuple                           *)
(*   (restriction_edges, timeframe, U, priority, gamma, k).                *)
(* Python floats (priority, gamma, k, _min_gamma) are held as an integer   *)
(* number of halves: 400 stands for 200.0, 501 for 250.5.  An absent gamma *)
(* (None) is the empty sequence, an explicit one a one-element sequence.   *)
(***************************************************************************)
EXTENDS Integers, Sequences, FiniteSets, TLC

\* ---------------------------------------------------------------- bounds
\* Top-level calls (apply_restriction, remove_artificial_artifact) in a run.
MaxCalls == 3
\* Changes made to the stored batch in a run.
MaxConfigs == 2
\* Longest batch of restrictions.
MaxBatch == 2
\* Largest time value and largest threshold U handed to a direct call of
\* validate_restriction.
MaxTime == 1
MaxU == 1
\* Violation analyses run one after another on one controller.
MaxAnalyses == 2
\* Largest node id and largest number of spatial nodes handed to a direct call
\* of the indexer.
MaxNodeId == 9
MaxM == 4
\* Largest max_flow and U handed to a direct call of calculate_virtual_flow.
MaxFlowArg == 4

\* ------------------------------------------------------ program constants
\* Number of spatial nodes (graph_processor.M).
M == 3
\* The node id above which GammaControlIntegrator.detect_escape_edges takes
\* both ends of an arc to be artificial.
EscapeNodeIdFloor == 80
\* The costs MasterGammaAnalyzer.detect_escape_edges compares an arc's cost
\* with.
MasterGammaFloor == 200
MasterCostFloor == 50
\* self._min_gamma as set by the constructor, in units of 1.
DefaultMinGamma == 200
\* Mean edge cost used when no edge has a cost.
FallbackMeanCost == 10
\* The cost field of an edge whose cost is None.
NoCost == -1

\* ----------------------------------------------------------- generic helpers
Range(s) == {s[i] : i \in DOMAIN s}

Max2(a, b) == IF a >= b THEN a ELSE b

RECURSIVE SetMax(_)
SetMax(S) ==
    IF S = {} THEN 0
    ELSE LET x == CHOOSE y \in S : TRUE IN Max2(x, SetMax(S \ {x}))

RECURSIVE SeqSum(_)
SeqSum(s) == IF s = <<>> THEN 0 ELSE Head(s) + SeqSum(Tail(s))

RECURSIVE SetSum(_, _)
\* Sum of f[x] over x \in S.
SetSum(f, S) ==
    IF S = {} THEN 0
    ELSE LET x == CHOOSE y \in S : TRUE IN f[x] + SetSum(f, S \ {x})

\* Every order in which the elements of a finite set can be enumerated.
RECURSIVE Orders(_)
Orders(S) ==
    IF S = {} THEN {<<>>}
    ELSE UNION {{<<x>> \o s : s \in Orders(S \ {x})} : x \in S}

Pair(e) == <<e[1], e[2]>>

\* ------------------------------------------------------ SpatialTimeIndexer
\* An indexer that takes the time to be the plain quotient.
node_time_quotient(node_id, m) == node_id \div m

\* node_id // M - (1 if node_id % M == 0 else 0), on a controller whose
\* self._M is m.
node_time(node_id, m) ==
    (node_id \div m) - (IF node_id % m = 0 THEN 1 ELSE 0)

\* node_id % M if node_id % M != 0 else M, on a controller whose self._M is m.
node_coordinates(node_id, m) ==
    IF node_id % m # 0 THEN node_id % m ELSE m

get_node_time(node_id) == node_time(node_id, M)

get_node_coordinates(node_id) == node_coordinates(node_id, M)

\* ------------------------------------------------------------- validation
\* A validator that also turns down a threshold of zero.
validate_restriction_positive(restriction_edges, timeframe, U) ==
    IF restriction_edges = <<>> \/ timeframe = <<>> \/ U <= 0 THEN FALSE
    ELSE IF Len(timeframe) # 2 \/ timeframe[1] > timeframe[2] THEN FALSE
    ELSE IF ~(\A i \in DOMAIN restriction_edges : Len(restriction_edges[i]) = 2)
         THEN FALSE
    ELSE TRUE

validate_restriction(restriction_edges, timeframe, U) ==
    IF restriction_edges = <<>> \/ timeframe = <<>> \/ U < 0 THEN FALSE
    ELSE IF Len(timeframe) # 2 \/ timeframe[1] > timeframe[2] THEN FALSE
    ELSE IF ~(\A i \in DOMAIN restriction_edges : Len(restriction_edges[i]) = 2)
         THEN FALSE
    ELSE TRUE

\* A setter that stores every spec it is given.
set_restrictions_all(restrictions_data) == restrictions_data

\* self.restrictions after set_restrictions(restrictions_data): the specs
\* that pass validate_restriction, in their original order.
set_restrictions(restrictions_data) ==
    SelectSeq(restrictions_data,
              LAMBDA r : validate_restriction(r.edges, r.tf, r.U))

\* ---------------------------------------------------------- OmegaExtractor
restriction_set(restriction_edges) ==
    {<<restriction_edges[i][1], restriction_edges[i][2]>> :
        i \in DOMAIN restriction_edges}

\* The test with the timeframe's two boundaries included.
time_intersects_closed(edge, start_time_frame, end_time_frame) ==
    (get_node_time(edge[1]) <= end_time_frame)
        /\ (get_node_time(edge[2]) >= start_time_frame)

\* The test applied to one edge of ts_edges.
time_intersects(edge, start_time_frame, end_time_frame) ==
    (get_node_time(edge[1]) < end_time_frame)
        /\ (get_node_time(edge[2]) > start_time_frame)

\* A test that looks at the time only.
in_omega_any_pair(edge, restriction_edges, start_time_frame, end_time_frame) ==
    time_intersects(edge, start_time_frame, end_time_frame)

in_omega(edge, restriction_edges, start_time_frame, end_time_frame) ==
    /\ <<get_node_coordinates(edge[1]), get_node_coordinates(edge[2])>>
           \in restriction_set(restriction_edges)
    /\ time_intersects(edge, start_time_frame, end_time_frame)

\* omega.append((source_id, dest_id, 0, capacity, cost)) for each match,
\* in the order of ts_edges.
identify_restricted_edges(edges, restriction_edges, start_time_frame, end_time_frame) ==
    LET hit == SelectSeq(edges,
                   LAMBDA e : in_omega(e, restriction_edges,
                                       start_time_frame, end_time_frame))
    IN [i \in 1..Len(hit) |-> <<hit[i][1], hit[i][2], 0, hit[i][4], hit[i][5]>>]

\* ------------------------------------------------------ CutCapacityAnalyzer
identify_restricted_nodes(omega) ==
    {omega[i][1] : i \in DOMAIN omega} \cup {omega[i][2] : i \in DOMAIN omega}

Capacities(s) == [i \in 1..Len(s) |-> s[i][4]]

\* An incoming capacity that also counts the edges between restricted nodes.
calculate_incoming_capacity_any_source(TSG, restricted_nodes) ==
    LET counted(e) == e[2] \in restricted_nodes
        keys == {TSG[i][2] : i \in {j \in DOMAIN TSG : counted(TSG[j])}}
    IN [v \in keys |->
          SeqSum(Capacities(SelectSeq(TSG, LAMBDA e : counted(e) /\ e[2] = v)))]

\* defaultdict(int): a key exists only for a node some counted edge enters.
calculate_incoming_capacity_for_restricted_nodes(TSG, restricted_nodes) ==
    LET counted(e) == e[2] \in restricted_nodes /\ e[1] \notin restricted_nodes
        keys == {TSG[i][2] : i \in {j \in DOMAIN TSG : counted(TSG[j])}}
    IN [v \in keys |->
          SeqSum(Capacities(SelectSeq(TSG, LAMBDA e : counted(e) /\ e[2] = v)))]

calculate_outgoing_capacity_for_restricted_nodes(TSG, restricted_nodes) ==
    LET counted(e) == e[1] \in restricted_nodes /\ e[2] \notin restricted_nodes
        keys == {TSG[i][1] : i \in {j \in DOMAIN TSG : counted(TSG[j])}}
    IN [u \in keys |->
          SeqSum(Capacities(SelectSeq(TSG, LAMBDA e : counted(e) /\ e[1] = u)))]

\* ------------------------------------------------------------ MaxFlowProbe
\* G.add_edge(source_id, dest_id, capacity=capacity): a DiGraph keeps one
\* edge per ordered pair, so the last omega edge of a pair sets its capacity.
omega_capacity(omega, p) ==
    LET last == CHOOSE i \in DOMAIN omega :
                   /\ Pair(omega[i]) = p
                   /\ \A j \in DOMAIN omega : Pair(omega[j]) = p => j <= i
    IN omega[last][4]

\* Capacity of the cut whose source side is {vS} \cup S.
cut_capacity(omega, incoming, outgoing, S) ==
    LET pairs == {Pair(omega[i]) : i \in DOMAIN omega}
        crossing == {p \in pairs : p[1] \in S /\ p[2] \notin S}
        capOf == [p \in crossing |-> omega_capacity(omega, p)]
    IN SetSum(incoming, DOMAIN incoming \ S)
         + SetSum(outgoing, DOMAIN outgoing \cap S)
         + SetSum(capOf, crossing)

\* nx.maximum_flow_value(G, "vS", "vT"): the value of a maximum flow, which
\* is the capacity of a minimum vS-vT cut.
calculate_max_flow(omega, incoming, outgoing) ==
    LET nodes == identify_restricted_nodes(omega)
                    \cup DOMAIN incoming \cup DOMAIN outgoing
        cuts == {cut_capacity(omega, incoming, outgoing, S) : S \in SUBSET nodes}
    IN CHOOSE c \in cuts : \A d \in cuts : c <= d

\* A virtual flow that is the plain difference.
calculate_virtual_flow_signed(max_flow, U) == max_flow - U

calculate_virtual_flow(max_flow, U) == Max2(0, max_flow - U)

\* ------------------------------------------------------------ GammaResolver
\* A rational is <<numerator, denominator>> with denominator > 0.
RatLeq(a, b) == a[1] * b[2] <= b[1] * a[2]

RatMax(a, b) == IF RatLeq(b, a) THEN a ELSE b

\* int(round(x)): Python rounds a tie to the even neighbour.
RoundHalfEven(x) ==
    LET q == x[1] \div x[2]
        r == x[1] % x[2]
    IN IF 2 * r < x[2] THEN q
       ELSE IF 2 * r > x[2] THEN q + 1
       ELSE IF q % 2 = 0 THEN q ELSE q + 1

\* [cost for (_, _, _, _, cost) in TSG if cost is not None]
Costs(s) ==
    LET costed == SelectSeq(s, LAMBDA e : e[5] # NoCost)
    IN  [i \in 1..Len(costed) |-> costed[i][5]]

\* priority, k and min_gamma in halves; the result is a rational.
calculate_default_gamma(TSG, priority, k, min_gamma) ==
    IF TSG = <<>> THEN <<min_gamma, 2>>
    ELSE LET costs == Costs(TSG)
             avg_cost == IF costs # <<>> THEN <<SeqSum(costs), Len(costs)>>
                         ELSE <<FallbackMeanCost, 1>>
             gamma == <<k * avg_cost[1] * Max2(2, priority), 4 * avg_cost[2]>>
         IN RatMax(gamma, <<min_gamma, 2>>)

\* A resolver that holds a given gamma to the floor as well.
final_gamma_floored(gamma_config, TSG, priority, k, min_gamma) ==
    RoundHalfEven(IF gamma_config # <<>>
                  THEN RatMax(<<gamma_config[1], 2>>, <<min_gamma, 2>>)
                  ELSE calculate_default_gamma(TSG, priority, k, min_gamma))

\* int(round(gamma_config if gamma_config is not None else
\*           self.calculate_default_gamma(ts_edges, priority, k_val, self._min_gamma)))
final_gamma(gamma_config, TSG, priority, k, min_gamma) ==
    RoundHalfEven(IF gamma_config # <<>> THEN <<gamma_config[1], 2>>
                  ELSE calculate_default_gamma(TSG, priority, k, min_gamma))

\* ------------------------------------------------------------------ inputs
\* The time-space graph the runs start from (M = 3, times 0..2): the corridor
\* of the controller's unit tests (spatial edges (1,1), (2,2) between
\* consecutive times and (1,2) at each time), with capacities 1 and 2.
BaseGraph ==
    << <<1, 4, 0, 2, 10>>, <<2, 5, 0, 1, 10>>, <<4, 7, 0, 2, 10>>,
       <<5, 8, 0, 1, 10>>, <<1, 2, 0, 1, 5>>, <<4, 5, 0, 2, 5>>,
       <<7, 8, 0, 1, 5>> >>

Restriction(edges, tf, U, priority, gamma, k) ==
    [edges |-> edges, tf |-> tf, U |-> U, priority |-> priority,
     gamma |-> gamma, k |-> k]

\* The restriction specs a batch is made of.  On BaseGraph:
\*   RA  omega {(4,5)}, F = 3 > U = 1, gamma 200.0 given
\*   RB  the same omega, F = 3 <= U = 5
\*   RC  omega {(4,7)}, F = 2 > U = 1, gamma derived with k = 60
\*   RD  omega {(1,4), (4,7), (4,5)}, F = 1 > U = 0, gamma 250.5 given
\*   RE  no edge of the graph matches
\*   RF  fails validation (start > end)
RA == Restriction(<< <<1, 2>> >>, <<0, 2>>, 1, 2, <<400>>, 2)
RB == Restriction(<< <<1, 2>> >>, <<0, 2>>, 5, 2, <<>>, 4)
RC == Restriction(<< <<1, 1>> >>, <<1, 2>>, 1, 2, <<>>, 120)
RD == Restriction(<< <<1, 2>>, <<1, 1>> >>, <<0, 2>>, 0, 3, <<501>>, 4)
RE == Restriction(<< <<3, 3>> >>, <<0, 3>>, 1, 2, <<>>, 4)
RF == Restriction(<< <<1, 2>> >>, <<2, 1>>, 1, 2, <<>>, 4)

RestrictionPool == {RA, RB, RC, RD, RE, RF}

\* ------------------------------------------------------------------- state
VARIABLES
    ts_nodes,              \* graph_processor.ts_nodes, as the list of node ids
    map_nodes,             \* keys of graph_processor.map_nodes
    ts_edges,              \* graph_processor.ts_edges
    restrictions,          \* self.restrictions
    cache,                 \* config.restrictions_data_cache
    min_gamma,             \* self._min_gamma, in halves
    self_omega,            \* self._omega
    all_additional_nodes,  \* self._all_additional_nodes
    all_additional_edges,  \* self._all_additional_edges
    virtual_node_demands,  \* self._virtual_node_demands
    pc,                    \* "idle", or the position inside apply_restriction
    idx,                   \* index of the restriction processed next
    max_node_id_val,       \* the id allocator of apply_restriction
    loc,                   \* locals of the loop body's last pass
    calls,                 \* top-level calls made
    configs,               \* batches stored
    trail,                 \* the last completed top-level calls
    at_call,               \* graph and ledger when the last call started
    at_apply,              \* graph and ledger when the last apply started
    pre_batch,             \* graph when the last batch's loop started
    allocated,             \* ids handed out by the last apply, in order
    last_escape_edges,     \* self.last_escape_edges
    last_violations,       \* self.last_violations
    arg,                   \* the last direct call of a method: name and inputs
    ret                    \* what that call returned

graph_vars == <<ts_nodes, map_nodes, ts_edges>>
ledger_vars == <<self_omega, all_additional_nodes, all_additional_edges,
                 virtual_node_demands>>
analysis_vars == <<last_escape_edges, last_violations, arg, ret>>
vars == <<ts_nodes, map_nodes, ts_edges, restrictions, cache, min_gamma,
          self_omega, all_additional_nodes, all_additional_edges,
          virtual_node_demands, pc, idx, max_node_id_val, loc, calls,
          configs, trail, at_call, at_apply, pre_batch, allocated,
          last_escape_edges, last_violations, arg, ret>>

Snapshot ==
    [nodes |-> ts_nodes, map |-> map_nodes, edges |-> ts_edges,
     omega |-> self_omega, add_nodes |-> all_additional_nodes,
     add_edges |-> all_additional_edges, demands |-> virtual_node_demands]

NoLocals ==
    [omega |-> <<>>, F |-> 0, virtual_flow |-> 0, gamma |-> 0,
     vS |-> 0, vD |-> 0, built |-> FALSE, ran |-> FALSE]

\* The last three completed calls.
Push(op) == IF Len(trail) < 3 THEN Append(trail, op)
            ELSE Append(Tail(trail), op)

EmptyDemands == [n \in {} |-> 0]

Init ==
    /\ ts_edges = BaseGraph
    /\ LET ids == 1..SetMax({BaseGraph[i][1] : i \in DOMAIN BaseGraph}
                              \cup {BaseGraph[i][2] : i \in DOMAIN BaseGraph})
       IN /\ ts_nodes = [i \in ids |-> i]
          /\ map_nodes = ids
    /\ restrictions = <<>>
    /\ cache = <<>>
    /\ min_gamma = 2 * DefaultMinGamma
    /\ self_omega = <<>>
    /\ all_additional_nodes = {}
    /\ all_additional_edges = <<>>
    /\ virtual_node_demands = EmptyDemands
    /\ pc = "idle"
    /\ idx = 0
    /\ max_node_id_val = 0
    /\ loc = NoLocals
    /\ calls = 0
    /\ configs = 0
    /\ trail = <<>>
    /\ at_call = Snapshot
    /\ at_apply = Snapshot
    /\ pre_batch = [nodes |-> ts_nodes, edges |-> ts_edges, max_id |-> 0]
    /\ allocated = <<>>
    /\ last_escape_edges = <<>>
    /\ last_violations = <<>>
    /\ arg = <<>>
    /\ ret = <<>>

\* ------------------------------------------------- graph-processor services
\* get_max_id(): the largest id in use in the graph.
get_max_id(nodes, edges) ==
    SetMax(Range(nodes) \cup {edges[i][1] : i \in DOMAIN edges}
                        \cup {edges[i][2] : i \in DOMAIN edges})

\* check_and_add_nodes(ids, ...): the ids with no entry in the id-to-node
\* map join the node list; the result is the new node list.
check_and_add_nodes(nodes, map, ids) ==
    nodes \o SelectSeq(ids, LAMBDA n : n \notin map)

\* ------------------------------------------------------------ ArtifactCleaner
\* ts_nodes after the "if additional_nodes_ids:" block.
nodes_after_cleanup(nodes, additional_nodes_ids) ==
    IF additional_nodes_ids # {}
    THEN SelectSeq(nodes, LAMBDA n : n \notin additional_nodes_ids)
    ELSE nodes

\* A cleaner that leaves the id-to-node map as it is.
map_after_cleanup_stale(map, additional_nodes_ids) == map

map_after_cleanup(map, additional_nodes_ids) ==
    IF additional_nodes_ids # {} THEN map \ additional_nodes_ids ELSE map

additional_edges_set(additional_edges_tuples) ==
    {Pair(additional_edges_tuples[i]) : i \in DOMAIN additional_edges_tuples}

\* A cleaner that gives up on the edges when a recorded pair is not in the
\* graph.
edges_after_removal_all_or_none(edges, additional_edges_tuples) ==
    IF additional_edges_set(additional_edges_tuples)
          \subseteq {Pair(edges[i]) : i \in DOMAIN edges}
    THEN SelectSeq(edges,
             LAMBDA e : Pair(e) \notin additional_edges_set(additional_edges_tuples))
    ELSE edges

\* ts_edges after the "if additional_edges_tuples:" block.
edges_after_removal(edges, additional_edges_tuples) ==
    IF additional_edges_tuples # <<>>
    THEN LET additional_edges == additional_edges_set(additional_edges_tuples)
         IN SelectSeq(edges, LAMBDA e : Pair(e) \notin additional_edges)
    ELSE edges

\* A cleaner that puts no original edge back.
original_edges_to_re_add_none(omega, additional_edges_tuples) == {}

\* The set comprehension over self._omega: an omega edge is kept when some
\* additional edge has its endpoint pair in additional_edges_set.
original_edges_to_re_add(omega, additional_edges_tuples) ==
    LET additional_edges == additional_edges_set(additional_edges_tuples)
    IN {e \in Range(omega) :
           \E i \in DOMAIN additional_edges_tuples :
               Pair(additional_edges_tuples[i]) \in additional_edges}

\* A reset that keeps the aggregate omega when no additional edge was recorded.
omega_after_reset_lazy(omega, additional_edges_tuples) ==
    IF additional_edges_tuples = <<>> THEN omega ELSE <<>>

\* self._omega = [] at the end of remove_artificial_artifact, whatever the
\* ledger held.
omega_after_reset(omega, additional_edges_tuples) == <<>>

\* The body of remove_artificial_artifact.  ts_edges.extend(list(a set))
\* appends the set's elements in the set's iteration order: any order.
cleanup_effect ==
    /\ ts_nodes' = nodes_after_cleanup(ts_nodes, all_additional_nodes)
    /\ map_nodes' = map_after_cleanup(map_nodes, all_additional_nodes)
    /\ \E order \in Orders(original_edges_to_re_add(self_omega, all_additional_edges)) :
          ts_edges' = edges_after_removal(ts_edges, all_additional_edges) \o order

\* ------------------------------------------------------ EscapeTopologyBuilder
\* Ids of the intermediate nodes of the j-th omega edge, given the id of
\* vD_global (the allocator's value before the loop over omega).
v_i1_id(vD_global_id, j) == vD_global_id + 2 * j - 1
\* An allocator that hands the first intermediate id out again.
v_i2_id_reused(vD_global_id, j) == vD_global_id + 2 * j - 1
v_i2_id(vD_global_id, j) == vD_global_id + 2 * j

\* A builder that charges the original cost on the middle leg as well.
new_edges_for_this_arc_costly(edge_orig, v_i1, v_i2, vS_global_id, vD_global_id) ==
    << <<edge_orig[1], v_i1, edge_orig[3], edge_orig[4], edge_orig[5]>>,
       <<v_i1, v_i2, edge_orig[3], edge_orig[4], edge_orig[5]>>,
       <<v_i2, edge_orig[2], edge_orig[3], edge_orig[4], 0>>,
       <<vS_global_id, v_i1, 0, edge_orig[4], 0>>,
       <<v_i2, vD_global_id, 0, edge_orig[4], 0>> >>

\* A replacement path whose middle edge has twice the capacity of the edge
\* it replaces.
new_edges_for_this_arc_wide(edge_orig, v_i1, v_i2, vS_global_id, vD_global_id) ==
    << <<edge_orig[1], v_i1, edge_orig[3], edge_orig[4], edge_orig[5]>>,
       <<v_i1, v_i2, edge_orig[3], 2 * edge_orig[4], 0>>,
       <<v_i2, edge_orig[2], edge_orig[3], edge_orig[4], 0>>,
       <<vS_global_id, v_i1, 0, edge_orig[4], 0>>,
       <<v_i2, vD_global_id, 0, edge_orig[4], 0>> >>

\* new_edges_for_this_arc
new_edges_for_this_arc(edge_orig, v_i1, v_i2, vS_global_id, vD_global_id) ==
    << <<edge_orig[1], v_i1, edge_orig[3], edge_orig[4], edge_orig[5]>>,
       <<v_i1, v_i2, edge_orig[3], edge_orig[4], 0>>,
       <<v_i2, edge_orig[2], edge_orig[3], edge_orig[4], 0>>,
       <<vS_global_id, v_i1, 0, edge_orig[4], 0>>,
       <<v_i2, vD_global_id, 0, edge_orig[4], 0>> >>

RECURSIVE replacement_edges(_, _, _, _)
\* The edges appended by the loop over omega, passes j..len(omega).
replacement_edges(omega, j, vS_global_id, vD_global_id) ==
    IF j > Len(omega) THEN <<>>
    ELSE new_edges_for_this_arc(omega[j], v_i1_id(vD_global_id, j),
                                v_i2_id(vD_global_id, j),
                                vS_global_id, vD_global_id)
           \o replacement_edges(omega, j + 1, vS_global_id, vD_global_id)

\* An escape edge that carries no penalty.
escape_edge_free(vS_global_id, vD_global_id, virtual_flow_needed, gamma) ==
    <<vS_global_id, vD_global_id, 0, virtual_flow_needed, 0>>

escape_edge(vS_global_id, vD_global_id, virtual_flow_needed, gamma) ==
    <<vS_global_id, vD_global_id, 0, virtual_flow_needed, gamma>>

\* Ids allocated for one processed restriction, in allocation order:
\* vS_global, vD_global, then v_i1, v_i2 for each omega edge.
allocated_ids(vS_global_id, vD_global_id, omega) ==
    <<vS_global_id, vD_global_id>>
      \o [i \in 1..(2 * Len(omega)) |->
            IF i % 2 = 1 THEN v_i1_id(vD_global_id, (i + 1) \div 2)
            ELSE v_i2_id(vD_global_id, i \div 2)]

\* A loop that swaps the edges in at once, restriction by restriction.
edges_after_step_eager(edges, omega, new_edges) ==
    SelectSeq(edges, LAMBDA e : \A i \in DOMAIN omega : Pair(omega[i]) # Pair(e))
        \o new_edges

\* ts_edges after one pass of the loop: the new edges go to
\* self._all_additional_edges only, the live list is not touched.
edges_after_step(edges, omega, new_edges) == edges

RECURSIVE nodes_after_build(_, _, _)
\* ts_nodes after check_and_add_nodes(pair) and ts_nodes.extend(pair) for
\* each allocated pair of ids in turn.
nodes_after_build(nodes, map, ids) ==
    IF ids = <<>> THEN nodes
    ELSE LET pair == <<ids[1], ids[2]>>
         IN nodes_after_build(check_and_add_nodes(nodes, map, pair) \o pair,
                              map \cup Range(pair), Tail(Tail(ids)))

\* --------------------------------------------------------- batch commit
\* A commit that takes no original edge out.
edges_to_remove_tuples_none(omega) == {}

edges_to_remove_tuples(omega) == {Pair(omega[i]) : i \in DOMAIN omega}

\* A commit that appends the additional edges and removes nothing.
edges_after_commit_keep(edges, omega, additional_edges) ==
    IF additional_edges # <<>> THEN edges \o additional_edges ELSE edges

edges_after_commit(edges, omega, additional_edges) ==
    IF additional_edges # <<>>
    THEN LET to_remove == edges_to_remove_tuples(omega)
         IN SelectSeq(edges, LAMBDA e : Pair(e) \notin to_remove)
               \o additional_edges
    ELSE edges

\* ----------------------------------------------------------------- actions
\* config.restrictions_data_cache, which get_restrictions reads back at the
\* start of every apply_restriction, gains the restriction spec r.  A change
\* of the batch that no call follows is not modelled.
AppendRestriction(r) ==
    /\ pc = "idle"
    /\ calls < MaxCalls
    /\ configs < MaxConfigs
    /\ Len(cache) < MaxBatch
    /\ cache' = Append(cache, r)
    /\ configs' = configs + 1
    /\ trail' = Push("configure")
    /\ UNCHANGED <<graph_vars, ledger_vars, restrictions, min_gamma, pc, idx,
                   max_node_id_val, loc, calls, at_call, at_apply, pre_batch,
                   allocated>>
    /\ UNCHANGED analysis_vars

\* config.restrictions_data_cache is emptied.
ClearBatch ==
    /\ pc = "idle"
    /\ calls < MaxCalls
    /\ configs < MaxConfigs
    /\ cache # <<>>
    /\ cache' = <<>>
    /\ configs' = configs + 1
    /\ trail' = Push("configure")
    /\ UNCHANGED <<graph_vars, ledger_vars, restrictions, min_gamma, pc, idx,
                   max_node_id_val, loc, calls, at_call, at_apply, pre_batch,
                   allocated>>
    /\ UNCHANGED analysis_vars

\* remove_artificial_artifact()
RemoveArtificialArtifact ==
    /\ pc = "idle"
    /\ calls < MaxCalls
    /\ cleanup_effect
    /\ all_additional_nodes' = {}
    /\ all_additional_edges' = <<>>
    /\ self_omega' = omega_after_reset(self_omega, all_additional_edges)
    /\ virtual_node_demands' = EmptyDemands
    /\ calls' = calls + 1
    /\ trail' = Push("cleanup")
    /\ at_call' = Snapshot
    /\ UNCHANGED <<restrictions, cache, min_gamma, pc, idx, max_node_id_val,
                   loc, configs, at_apply, pre_batch, allocated>>
    /\ UNCHANGED analysis_vars

\* apply_restriction(), up to the start of the loop: get_restrictions(), the
\* cleanup of a previous cycle, the seeding of the id allocator.
ApplyStart ==
    /\ pc = "idle"
    /\ calls < MaxCalls
    /\ calls' = calls + 1
    /\ at_call' = Snapshot
    /\ at_apply' = Snapshot
    /\ restrictions' = set_restrictions(cache)
    /\ IF restrictions' = <<>>
       THEN /\ trail' = Push("apply_returned")
            /\ UNCHANGED <<graph_vars, ledger_vars, pc, idx, max_node_id_val,
                           loc, pre_batch, allocated>>
       ELSE /\ IF all_additional_nodes # {} \/ all_additional_edges # <<>>
               THEN /\ cleanup_effect
                    /\ all_additional_nodes' = {}
                    /\ all_additional_edges' = <<>>
                    /\ self_omega' = omega_after_reset(self_omega, all_additional_edges)
                    /\ virtual_node_demands' = EmptyDemands
               ELSE UNCHANGED <<graph_vars, ledger_vars>>
            /\ max_node_id_val' = get_max_id(ts_nodes', ts_edges')
            /\ pre_batch' = [nodes |-> ts_nodes', edges |-> ts_edges',
                             max_id |-> max_node_id_val']
            /\ allocated' = <<>>
            /\ idx' = 1
            /\ loc' = NoLocals
            /\ pc' = "loop"
            /\ UNCHANGED trail
    /\ UNCHANGED <<cache, min_gamma, configs>>
    /\ UNCHANGED analysis_vars

\* One pass of "for idx, restriction_item in enumerate(self.restrictions)".
ApplyStep ==
    /\ pc = "loop"
    /\ \E omega \in {identify_restricted_edges(ts_edges, restrictions[idx].edges,
                                                restrictions[idx].tf[1],
                                                restrictions[idx].tf[2])} :
       \E F \in {IF omega = <<>> THEN 0
                 ELSE LET nodes == identify_restricted_nodes(omega)
                      IN calculate_max_flow(
                             omega,
                             calculate_incoming_capacity_for_restricted_nodes(ts_edges, nodes),
                             calculate_outgoing_capacity_for_restricted_nodes(ts_edges, nodes))} :
       LET r == restrictions[idx]
           virtual_flow_needed == calculate_virtual_flow(F, r.U)
           gamma == final_gamma(r.gamma, ts_edges, r.priority, r.k, min_gamma)
           vS_global_id == max_node_id_val + 1
           vD_global_id == max_node_id_val + 2
           ids == allocated_ids(vS_global_id, vD_global_id, omega)
           new_edges == replacement_edges(omega, 1, vS_global_id, vD_global_id)
                          \o <<escape_edge(vS_global_id, vD_global_id,
                                           virtual_flow_needed, gamma)>>
       IN IF omega = <<>>
          THEN \* continue
               /\ loc' = [NoLocals EXCEPT !.ran = TRUE]
               /\ UNCHANGED <<graph_vars, ledger_vars, max_node_id_val, allocated>>
          ELSE /\ self_omega' = self_omega \o omega
               /\ IF virtual_flow_needed <= 0
                  THEN \* continue
                       /\ loc' = [NoLocals EXCEPT !.ran = TRUE, !.omega = omega,
                                                  !.F = F]
                       /\ UNCHANGED <<graph_vars, all_additional_nodes,
                                      all_additional_edges, virtual_node_demands,
                                      max_node_id_val, allocated>>
                  ELSE /\ virtual_node_demands' =
                              [n \in DOMAIN virtual_node_demands
                                       \cup {vS_global_id, vD_global_id} |->
                                  IF n = vS_global_id THEN virtual_flow_needed
                                  ELSE IF n = vD_global_id THEN -virtual_flow_needed
                                  ELSE virtual_node_demands[n]]
                       /\ all_additional_nodes' = all_additional_nodes \cup Range(ids)
                       /\ ts_nodes' = nodes_after_build(ts_nodes, map_nodes, ids)
                       /\ map_nodes' = map_nodes \cup Range(ids)
                       /\ all_additional_edges' = all_additional_edges \o new_edges
                       /\ max_node_id_val' = max_node_id_val + Len(ids)
                       /\ allocated' = allocated \o ids
                       /\ loc' = [omega |-> omega, F |-> F,
                                  virtual_flow |-> virtual_flow_needed,
                                  gamma |-> gamma, vS |-> vS_global_id,
                                  vD |-> vD_global_id, built |-> TRUE, ran |-> TRUE]
                       /\ ts_edges' = edges_after_step(ts_edges, omega, new_edges)
    /\ idx' = idx + 1
    /\ pc' = IF idx = Len(restrictions) THEN "commit" ELSE "loop"
    /\ UNCHANGED <<restrictions, cache, min_gamma, calls, configs, trail,
                   at_call, at_apply, pre_batch>>
    /\ UNCHANGED analysis_vars

\* "if self._all_additional_edges:" after the loop: the one update of
\* ts_edges; the call returns and its locals are gone.
ApplyCommit ==
    /\ pc = "commit"
    /\ ts_edges' = edges_after_commit(ts_edges, self_omega, all_additional_edges)
    /\ pc' = "idle"
    /\ idx' = 0
    /\ max_node_id_val' = 0
    /\ loc' = NoLocals
    /\ trail' = Push("apply")
    /\ UNCHANGED <<ts_nodes, map_nodes, ledger_vars, restrictions, cache,
                   min_gamma, calls, configs, at_call, at_apply, pre_batch,
                   allocated>>
    /\ UNCHANGED analysis_vars

\* ------------------------------------------------------ violation analysis
\* str(n) for n >= 0: the decimal digits of n, most significant first.
RECURSIVE str(_)
str(n) == IF n < 10 THEN <<n>> ELSE Append(str(n \div 10), n % 10)

\* A TSG file is the sequence of its arc lines "a source dest lower capacity
\* cost".  GammaControlIntegrator.detect_escape_edges keeps the arcs whose
\* two ends are both above EscapeNodeIdFloor and whose cost is positive.
detect_escape_edges(tsg_file) ==
    LET arcs == SelectSeq(tsg_file,
                          LAMBDA a : /\ a[1] > EscapeNodeIdFloor
                                     /\ a[2] > EscapeNodeIdFloor
                                     /\ a[5] > 0)
    IN  [i \in DOMAIN arcs |->
            [source |-> arcs[i][1], dest |-> arcs[i][2], cost |-> arcs[i][5]]]

\* MasterGammaAnalyzer.detect_escape_edges keeps the arcs of cost at least
\* MasterGammaFloor and those above the id floor whose cost exceeds
\* MasterCostFloor.
detect_escape_edges_master(dimacs_file) ==
    LET arcs == SelectSeq(dimacs_file,
                          LAMBDA a : \/ a[5] >= MasterGammaFloor
                                     \/ /\ a[1] > EscapeNodeIdFloor
                                        /\ a[2] > EscapeNodeIdFloor
                                        /\ a[5] > MasterCostFloor)
    IN  [i \in DOMAIN arcs |->
            [source |-> arcs[i][1], dest |-> arcs[i][2], cost |-> arcs[i][5]]]

\* NetworkXSolution.flowDict after read_dimac_file when the solver assigned
\* flow[i] to arc i of the file: keyed by the node tokens of the file, with
\* the arcs of zero flow filtered out.
flowDict(tsg_file, flow) ==
    LET used == {i \in DOMAIN tsg_file : flow[i] # 0}
        key(i) == <<str(tsg_file[i][1]), str(tsg_file[i][2])>>
    IN  [k \in {key(i) : i \in used} |->
            flow[CHOOSE i \in used : key(i) = k]]

\* flow_value in the loop of analyze_escape_edge_flow.
flow_value(flow_dict, edge) ==
    LET k == <<str(edge.source), str(edge.dest)>>
    IN  IF k \in DOMAIN flow_dict THEN flow_dict[k] ELSE 0

\* GammaControlIntegrator.analyze_escape_edge_flow(escape_edges, tsg_file);
\* solved says whether read_dimac_file raised and, if it did not, the flow
\* the solver assigned.
analyze_escape_edge_flow(escape_edges, tsg_file, solved) ==
    IF escape_edges = <<>> THEN <<>>
    ELSE IF solved.raised THEN <<>>
    ELSE LET flow_dict == flowDict(tsg_file, solved.flow)
             hit == SelectSeq(escape_edges,
                              LAMBDA edge : flow_value(flow_dict, edge) > 0)
         IN  [i \in DOMAIN hit |->
                 [source |-> hit[i].source,
                  dest |-> hit[i].dest,
                  flow |-> flow_value(flow_dict, hit[i]),
                  gamma_cost |-> hit[i].cost,
                  penalty_cost |-> flow_value(flow_dict, hit[i]) * hit[i].cost]]

\* controller.get_violation_summary()
get_violation_summary(escape_edges, violations) ==
    [escape_edges_count |-> Len(escape_edges),
     violations_count |-> Len(violations),
     total_violation_flow |->
        SeqSum([i \in DOMAIN violations |-> violations[i].flow]),
     total_penalty_cost |->
        SeqSum([i \in DOMAIN violations |-> violations[i].penalty_cost]),
     violated_edges |->
        [i \in DOMAIN violations |->
            <<violations[i].source, violations[i].dest>>]]

\* TSG files handed to the analysis: the base arc (4,5) alone; the same with
\* one escape edge of gamma 200; two escape edges of gamma 200 and 471.
TSGPlain == <<<<4, 5, 0, 2, 5>>>>
TSGOne == <<<<4, 5, 0, 2, 5>>, <<100, 101, 0, 2, 200>>>>
TSGTwo == <<<<100, 101, 0, 2, 200>>, <<102, 103, 0, 1, 471>>>>
TSGFiles == {TSGPlain, TSGOne, TSGTwo}

\* What read_dimac_file can come to on a file: it raises, or the solver
\* assigns every arc a flow within its capacity.
Solves(tsg_file) ==
    {[raised |-> TRUE, flow |-> <<>>]}
    \cup {[raised |-> FALSE, flow |-> f] :
            f \in {g \in [DOMAIN tsg_file -> 0..2] :
                        \A i \in DOMAIN tsg_file : g[i] <= tsg_file[i][4]}}

\* controller.analyze_current_violations(tsg_file)
AnalyzeCurrentViolations(tsg_file, solved) ==
    /\ pc = "idle"
    /\ trail = <<>>
    /\ cache = <<>>
    /\ all_additional_nodes = {}
    /\ all_additional_edges = <<>>
    /\ self_omega = <<>>
    /\ IF arg = <<>> THEN TRUE ELSE arg[1] = "analyze_current_violations"
    /\ calls < MaxAnalyses
    /\ calls' = calls + 1
    /\ arg' = <<"analyze_current_violations", tsg_file, solved>>
    /\ LET escape_edges == detect_escape_edges(tsg_file)
       IN  /\ last_escape_edges' = escape_edges
           /\ IF escape_edges = <<>>
              THEN /\ ret' = [raised |-> FALSE, value |-> <<>>]
                   /\ UNCHANGED last_violations
              ELSE LET violations == analyze_escape_edge_flow(
                                         escape_edges, tsg_file, solved)
                   IN  /\ last_violations' = violations
                       /\ ret' = [raised |-> FALSE, value |-> violations]
    /\ UNCHANGED <<graph_vars, ledger_vars, restrictions, cache, min_gamma,
                   pc, idx, max_node_id_val, loc, configs, trail, at_call,
                   at_apply, pre_batch, allocated>>

\* controller.get_violation_summary() after an analysis; arg keeps the
\* inputs of that analysis.
GetViolationSummary ==
    /\ pc = "idle"
    /\ trail = <<>>
    /\ arg # <<>>
    /\ arg[1] = "analyze_current_violations"
    /\ arg' = <<"get_violation_summary", arg[2], arg[3]>>
    /\ ret' = [raised |-> FALSE,
               value |-> get_violation_summary(last_escape_edges,
                                               last_violations)]
    /\ UNCHANGED <<graph_vars, ledger_vars, restrictions, cache, min_gamma,
                   pc, idx, max_node_id_val, loc, calls, configs, trail,
                   at_call, at_apply, pre_batch, allocated,
                   last_escape_edges, last_violations>>

\* ------------------------------------------------- direct calls of methods
\* Sequences over S of length at most n.
SeqsUpTo(S, n) == UNION {[1..k -> S] : k \in 0..n}

\* The controller as constructed: nothing configured, applied, analysed or
\* called.
Fresh ==
    /\ pc = "idle"
    /\ trail = <<>>
    /\ cache = <<>>
    /\ all_additional_nodes = {}
    /\ all_additional_edges = <<>>
    /\ self_omega = <<>>
    /\ arg = <<>>

\* Ledgers a caller hands over through set_all_additional_nodes,
\* set_all_additional_edges and set_omega.  On BaseGraph node 7 and the
\* pair (7,8) are in the graph; node 9 and the pairs (9,10) and (8,9) are
\* not.  The omega edge (4,5) is in the graph, (3,6) is not.
LedgerNodeArgs == SUBSET {7, 9}
LedgerEdgeArgs ==
    SeqsUpTo({<<7, 8, 0, 1, 5>>, <<9, 10, 0, 2, 200>>, <<8, 9, 0, 1, 0>>}, 2)
LedgerOmegaArgs == {<<>>, <<<<4, 5, 0, 2, 5>>>>, <<<<3, 6, 0, 1, 10>>>>}

\* set_all_additional_nodes(nodes); set_all_additional_edges(edges);
\* set_omega(omega) on a new controller.
SetLedger(nodes, edges, omega) ==
    /\ Fresh
    /\ ~(nodes = {} /\ edges = <<>> /\ omega = <<>>)
    /\ all_additional_nodes' = nodes
    /\ all_additional_edges' = edges
    /\ self_omega' = omega
    /\ UNCHANGED <<graph_vars, virtual_node_demands, restrictions, cache,
                   min_gamma, pc, idx, max_node_id_val, loc, calls, configs,
                   trail, at_call, at_apply, pre_batch, allocated>>
    /\ UNCHANGED analysis_vars

\* Edge lists as a caller may write them: edges of none, one, two or three
\* endpoints; timeframes of none to three values.
EdgeArgs == {<<>>, <<4>>, <<4, 5>>, <<1, 4>>, <<4, 5, 7>>}
EdgeListArgs == SeqsUpTo(EdgeArgs, 2)
TimeframeArgs == SeqsUpTo(0..MaxTime, 3)
UArgs == -1..MaxU

\* controller.validate_restriction(restriction_edges, timeframe, U)
CallValidateRestriction(restriction_edges, timeframe, U) ==
    /\ Fresh
    /\ arg' = <<"validate_restriction", restriction_edges, timeframe, U>>
    /\ ret' = validate_restriction(restriction_edges, timeframe, U)
    /\ UNCHANGED <<graph_vars, ledger_vars, restrictions, cache, min_gamma,
                   pc, idx, max_node_id_val, loc, calls, configs, trail,
                   at_call, at_apply, pre_batch, allocated,
                   last_escape_edges, last_violations>>

\* The omegas handed to the capacity functions: for every set of endpoint
\* pairs of BaseGraph, the edges of those pairs in the graph's order.
OmegaArgs ==
    {SelectSeq(BaseGraph, LAMBDA e : Pair(e) \in P) :
        P \in SUBSET {Pair(BaseGraph[i]) : i \in DOMAIN BaseGraph}}

\* identify_restricted_nodes(omega), then the two capacity functions on the
\* full graph TSG with the set it returned.
CallRestrictedCapacities(TSG, omega) ==
    /\ Fresh
    /\ arg' = <<"identify_restricted_nodes", TSG, omega>>
    /\ LET restricted_nodes == identify_restricted_nodes(omega)
       IN  ret' = [restricted_nodes |-> restricted_nodes,
                   incoming |->
                       calculate_incoming_capacity_for_restricted_nodes(
                           TSG, restricted_nodes),
                   outgoing |->
                       calculate_outgoing_capacity_for_restricted_nodes(
                           TSG, restricted_nodes)]
    /\ UNCHANGED <<graph_vars, ledger_vars, restrictions, cache, min_gamma,
                   pc, idx, max_node_id_val, loc, calls, configs, trail,
                   at_call, at_apply, pre_batch, allocated,
                   last_escape_edges, last_violations>>

\* Edge lists handed to calculate_default_gamma: empty, without a costed
\* edge, partly costed, fully costed.  priority, k and min_gamma in halves.
GammaTSGArgs ==
    {<<>>,
     << <<1, 2, 0, 1, NoCost>> >>,
     << <<1, 2, 0, 1, NoCost>>, <<2, 3, 0, 1, NoCost>> >>,
     << <<1, 2, 0, 1, 5>>, <<2, 3, 0, 1, NoCost>> >>,
     << <<1, 2, 0, 1, 5>>, <<2, 3, 0, 1, 10>> >>}
PriorityArgs == {1, 2, 3}
KArgs == {2, 120}
MinGammaArgs == {100, 400}

\* controller.calculate_default_gamma(TSG, priority, k, min_gamma)
CallCalculateDefaultGamma(TSG, priority, k, min_gamma_arg) ==
    /\ Fresh
    /\ arg' = <<"calculate_default_gamma", TSG, priority, k, min_gamma_arg>>
    /\ ret' = calculate_default_gamma(TSG, priority, k, min_gamma_arg)
    /\ UNCHANGED <<graph_vars, ledger_vars, restrictions, cache, min_gamma,
                   pc, idx, max_node_id_val, loc, calls, configs, trail,
                   at_call, at_apply, pre_batch, allocated,
                   last_escape_edges, last_violations>>

\* _get_node_time(node_id) and _get_node_coordinates(node_id) on a controller
\* built for a graph of m spatial nodes.
CallGetNodeIndex(node_id, m) ==
    /\ Fresh
    /\ arg' = <<"_get_node_time", node_id, m>>
    /\ ret' = <<node_time(node_id, m), node_coordinates(node_id, m)>>
    /\ UNCHANGED <<graph_vars, ledger_vars, restrictions, cache, min_gamma,
                   pc, idx, max_node_id_val, loc, calls, configs, trail,
                   at_call, at_apply, pre_batch, allocated,
                   last_escape_edges, last_violations>>

\* controller.calculate_virtual_flow(max_flow, U)
CallCalculateVirtualFlow(max_flow, U) ==
    /\ Fresh
    /\ arg' = <<"calculate_virtual_flow", max_flow, U>>
    /\ ret' = calculate_virtual_flow(max_flow, U)
    /\ UNCHANGED <<graph_vars, ledger_vars, restrictions, cache, min_gamma,
                   pc, idx, max_node_id_val, loc, calls, configs, trail,
                   at_call, at_apply, pre_batch, allocated,
                   last_escape_edges, last_violations>>

\* ------------------------------------------- gamma control and solver faults
\* Restriction specs with a penalty below the floor of 200.  On BaseGraph:
\*   RG  omega {(4,5)}, F = 3 > U = 1, gamma 150.0 given
\*   RH  omega {(4,7)}, F = 2 > U = 1, gamma derived with k = 2
RG == Restriction(<< <<1, 2>> >>, <<0, 2>>, 1, 2, <<300>>, 2)
RH == Restriction(<< <<1, 1>> >>, <<1, 2>>, 1, 2, <<>>, 4)

GammaPool == {RC, RG, RH}

\* gamma_value handed to set_gamma_value, in halves: 300.5.
GammaValueArgs == {601}

\* "for i, restriction in enumerate(self.restrictions)" of set_gamma_value:
\* every stored tuple is rebuilt with gamma_value in its fifth place.
restrictions_with_gamma(stored, gamma_value) ==
    [i \in DOMAIN stored |->
        Restriction(stored[i].edges, stored[i].tf, stored[i].U,
                    stored[i].priority, <<gamma_value>>, stored[i].k)]

\* A set_gamma_value that rewrites the batch the next apply_restriction reads.
cache_after_set_gamma_written(batch, gamma_value) ==
    restrictions_with_gamma(batch, gamma_value)

\* set_gamma_value assigns self.restrictions only;
\* config.restrictions_data_cache keeps the batch as it was stored.
cache_after_set_gamma(batch, gamma_value) == batch

\* get_gamma_value()
get_gamma_value == min_gamma

\* set_gamma_value(gamma_value).  The integrator, when one is enabled, assigns
\* the same gamma_value to the same _min_gamma.
SetGammaValue(gamma_value) ==
    /\ pc = "idle"
    /\ calls < MaxCalls
    /\ min_gamma' = gamma_value
    /\ restrictions' = restrictions_with_gamma(restrictions, gamma_value)
    /\ cache' = cache_after_set_gamma(cache, gamma_value)
    /\ calls' = calls + 1
    /\ trail' = Push("set_gamma_value")
    /\ at_call' = Snapshot
    /\ UNCHANGED <<graph_vars, ledger_vars, pc, idx, max_node_id_val, loc,
                   configs, at_apply, pre_batch, allocated>>
    /\ UNCHANGED analysis_vars

\* A pass of the loop in which calculate_max_flow raises: _omega was
\* extended before the call; the exception ends apply_restriction, which has
\* no handler, before the commit.
ApplyStepRaises ==
    /\ pc = "loop"
    /\ LET r == restrictions[idx]
           omega == identify_restricted_edges(ts_edges, r.edges, r.tf[1], r.tf[2])
       IN  /\ omega # <<>>
           /\ self_omega' = self_omega \o omega
    /\ pc' = "idle"
    /\ idx' = 0
    /\ max_node_id_val' = 0
    /\ loc' = NoLocals
    /\ trail' = Push("apply_raised")
    /\ UNCHANGED <<graph_vars, all_additional_nodes, all_additional_edges,
                   virtual_node_demands, restrictions, cache, min_gamma, calls,
                   configs, at_call, at_apply, pre_batch, allocated>>
    /\ UNCHANGED analysis_vars

\* -------------------------------------------------- virtual demand queries
DemandPool == {RB, RG, RH}

\* Node ids asked for: a base node, the vD_global of a batch's first
\* restriction, its first intermediate node.
DemandIdArgs == {4, 10, 11}

\* The value a caller writes into the dictionary it was handed.
CallerDemand == 7

\* self._virtual_node_demands.get(node_id, 0)
get_virtual_node_demand(node_id) ==
    IF node_id \in DOMAIN virtual_node_demands
    THEN virtual_node_demands[node_id] ELSE 0

\* A getter that hands out the ledger's own dictionary.
get_virtual_node_demands_shared ==
    [shared |-> TRUE, value |-> virtual_node_demands]

\* self._virtual_node_demands.copy(): a new dictionary with the same items.
get_virtual_node_demands ==
    [shared |-> FALSE, value |-> virtual_node_demands]

GetVirtualNodeDemand(node_id) ==
    /\ pc = "idle"
    /\ arg = <<>>
    /\ arg' = <<"get_virtual_node_demand", node_id>>
    /\ ret' = get_virtual_node_demand(node_id)
    /\ UNCHANGED <<graph_vars, ledger_vars, restrictions, cache, min_gamma,
                   pc, idx, max_node_id_val, loc, calls, configs, trail,
                   at_call, at_apply, pre_batch, allocated,
                   last_escape_edges, last_violations>>

GetVirtualNodeDemands ==
    /\ pc = "idle"
    /\ arg = <<>>
    /\ arg' = <<"get_virtual_node_demands">>
    /\ ret' = get_virtual_node_demands
    /\ UNCHANGED <<graph_vars, ledger_vars, restrictions, cache, min_gamma,
                   pc, idx, max_node_id_val, loc, calls, configs, trail,
                   at_call, at_apply, pre_batch, allocated,
                   last_escape_edges, last_violations>>

\* The caller assigns demands[node_id] = CallerDemand in the dictionary that
\* get_virtual_node_demands returned; the ledger's dictionary changes with it
\* exactly if it is the same object.
MutateReturnedDemands(node_id) ==
    /\ pc = "idle"
    /\ arg = <<"get_virtual_node_demands">>
    /\ arg' = <<"get_virtual_node_demands", node_id>>
    /\ LET written == [n \in DOMAIN ret.value \cup {node_id} |->
                          IF n = node_id THEN CallerDemand ELSE ret.value[n]]
       IN  /\ ret' = [ret EXCEPT !.value = written]
           /\ virtual_node_demands' =
                  IF ret.shared THEN written ELSE virtual_node_demands
    /\ UNCHANGED <<graph_vars, self_omega, all_additional_nodes,
                   all_additional_edges, restrictions, cache, min_gamma,
                   pc, idx, max_node_id_val, loc, calls, configs, trail,
                   at_call, at_apply, pre_batch, allocated,
                   last_escape_edges, last_violations>>

\* ------------------------------------------------ flows on the construction
FlowPool == {RG, RD}

\* What leaves node n minus what enters it, under the flow x on the first
\* Len(x) edges of the list edges.
NetOutflow(edges, x, n) ==
    SeqSum([i \in DOMAIN x |->
               IF edges[i][1] = n /\ edges[i][2] # n THEN x[i]
               ELSE IF edges[i][2] = n /\ edges[i][1] # n THEN -x[i]
               ELSE 0])

\* The flows on the first i edges of edges that respect the capacities and,
\* at every node of DOMAIN demands all of whose edges are among those i,
\* leave the net outflow demands[n].  For i = Len(edges) these are the flows
\* that respect every capacity and the balance of every node in DOMAIN demands.
RECURSIVE FlowsUpTo(_, _, _)
FlowsUpTo(edges, demands, i) ==
    IF i = 0 THEN {<<>>}
    ELSE LET closed == {n \in {edges[i][1], edges[i][2]} \cap DOMAIN demands :
                           \A j \in DOMAIN edges :
                              j > i => n \notin {edges[j][1], edges[j][2]}}
         IN  {x \in {Append(y, c) : y \in FlowsUpTo(edges, demands, i - 1),
                                    c \in 0..edges[i][4]} :
                 \A n \in closed : NetOutflow(edges, x, n) = demands[n]}

\* The balances a flow on the construction has to meet: the virtual demands
\* at the global nodes, conservation at the other artificial nodes.
construction_demands ==
    [n \in all_additional_nodes |-> get_virtual_node_demand(n)]

\* A flow is routed through the graph apply_restriction has left: on the
\* edges of the construction it is any flow within the capacities that
\* meets the virtual demands and is conserved at the intermediate nodes.
\* The graph has no other edge at an artificial node.  Only the flows of a
\* graph with one processed restriction are enumerated.
RouteFlow ==
    /\ pc = "idle"
    /\ trail # <<>>
    /\ trail[Len(trail)] = "apply"
    /\ arg = <<>>
    /\ Cardinality(DOMAIN virtual_node_demands) = 2
    /\ \A i \in DOMAIN ts_edges :
          {ts_edges[i][1], ts_edges[i][2]} \cap all_additional_nodes # {}
             => ts_edges[i] \in Range(all_additional_edges)
    /\ arg' = <<"flow">>
    /\ ret' \in FlowsUpTo(all_additional_edges, construction_demands,
                          Len(all_additional_edges))
    /\ UNCHANGED <<graph_vars, ledger_vars, restrictions, cache, min_gamma,
                   pc, idx, max_node_id_val, loc, calls, configs, trail,
                   at_call, at_apply, pre_batch, allocated,
                   last_escape_edges, last_violations>>

Next ==
    \/ \E r \in RestrictionPool : AppendRestriction(r)
    \/ ClearBatch
    \/ ApplyStart
    \/ ApplyStep
    \/ ApplyCommit
    \/ RemoveArtificialArtifact

Spec == Init /\ [][Next]_vars

\* The methods a caller invokes directly on a constructed controller.
NextCalls ==
    \/ \E restriction_edges \in EdgeListArgs, timeframe \in TimeframeArgs,
          U \in UArgs :
            CallValidateRestriction(restriction_edges, timeframe, U)
    \/ \E tsg_file \in TSGFiles : \E solved \in Solves(tsg_file) :
            AnalyzeCurrentViolations(tsg_file, solved)
    \/ GetViolationSummary
    \/ \E nodes \in LedgerNodeArgs, edges \in LedgerEdgeArgs,
          omega \in LedgerOmegaArgs : SetLedger(nodes, edges, omega)
    \/ RemoveArtificialArtifact
    \/ \E node_id \in 1..MaxNodeId, m \in 1..MaxM : CallGetNodeIndex(node_id, m)
    \/ \E max_flow \in 0..MaxFlowArg, U \in 0..MaxFlowArg :
            CallCalculateVirtualFlow(max_flow, U)
    \/ \E TSG \in GammaTSGArgs, priority \in PriorityArgs, k \in KArgs,
          min_gamma_arg \in MinGammaArgs :
            CallCalculateDefaultGamma(TSG, priority, k, min_gamma_arg)
    \/ \E omega \in OmegaArgs : CallRestrictedCapacities(BaseGraph, omega)

SpecCalls == Init /\ [][NextCalls]_vars

\* Batches with penalties around the floor, set_gamma_value between the
\* calls, and a max-flow computation that may raise.
NextGamma ==
    \/ \E r \in GammaPool : AppendRestriction(r)
    \/ ApplyStart
    \/ ApplyStep
    \/ ApplyStepRaises
    \/ ApplyCommit
    \/ RemoveArtificialArtifact
    \/ \E gamma_value \in GammaValueArgs : SetGammaValue(gamma_value)

SpecGamma == Init /\ [][NextGamma]_vars

\* Batches applied and cleaned up, with the virtual demands read in between.
NextDemands ==
    \/ \E r \in DemandPool : AppendRestriction(r)
    \/ ApplyStart
    \/ ApplyStep
    \/ ApplyCommit
    \/ RemoveArtificialArtifact
    \/ \E node_id \in DemandIdArgs : GetVirtualNodeDemand(node_id)
    \/ GetVirtualNodeDemands
    \/ \E node_id \in DemandIdArgs : MutateReturnedDemands(node_id)

SpecDemands == Init /\ [][NextDemands]_vars

\* Batches applied, and a flow routed through the graph they leave, with
\* which the run ends.
NextFlow ==
    \/ \E r \in FlowPool : arg = <<>> /\ AppendRestriction(r)
    \/ arg = <<>> /\ ApplyStart
    \/ arg = <<>> /\ ApplyStep
    \/ arg = <<>> /\ ApplyCommit
    \/ RouteFlow

SpecFlow == Init /\ [][NextFlow]_vars

\* ================================================================== claims
\* No call is in progress and the last completed calls are ops, oldest first.
TrailEnds(ops) ==
    /\ pc = "idle"
    /\ Len(trail) >= Len(ops)
    /\ SubSeq(trail, Len(trail) - Len(ops) + 1, Len(trail)) = ops

Ledger(s) == <<s.omega, s.add_nodes, s.add_edges, s.demands>>

\* The edges the last pass of the loop appended to the ledger, as seen
\* across one step.
NewEdges ==
    SubSeq(all_additional_edges', Len(all_additional_edges) + 1,
           Len(all_additional_edges'))

NewNodes == all_additional_nodes' \ all_additional_nodes

\* A step that is a pass of the loop in which artifacts were built.
BuildStep == pc = "loop" /\ loc'.built

\* Every edge has lower bound 0 and no two edges join the same pair of nodes.
PlainGraph(edges) ==
    /\ \A i \in DOMAIN edges : edges[i][3] = 0
    /\ \A i, j \in DOMAIN edges : Pair(edges[i]) = Pair(edges[j]) => i = j

\* The spec's indexer: time_of(id) = (id-1) div M, spatial_of(id) = ((id-1) mod M) + 1.
time_of(id) == (id - 1) \div M
spatial_of(id) == ((id - 1) % M) + 1

\* Omega and virtual flow of restriction r on the edge list edges.
omega_of(r, edges) == identify_restricted_edges(edges, r.edges, r.tf[1], r.tf[2])

max_flow_of(r, edges) ==
    LET omega == omega_of(r, edges)
        nodes == identify_restricted_nodes(omega)
    IN calculate_max_flow(
           omega,
           calculate_incoming_capacity_for_restricted_nodes(edges, nodes),
           calculate_outgoing_capacity_for_restricted_nodes(edges, nodes))

virtual_flow_of(r, edges) == calculate_virtual_flow(max_flow_of(r, edges), r.U)

\* Endpoints of the edges of an edge list.
Endpoints(edges) ==
    {edges[i][1] : i \in DOMAIN edges} \cup {edges[i][2] : i \in DOMAIN edges}

\* The paths u -> a -> b -> v through two artificial nodes that the ledger's
\* edges hold for the edge from u to v.
ReplacementPaths(u, v) ==
    LET joined == {Pair(all_additional_edges[i]) : i \in DOMAIN all_additional_edges}
    IN {p \in all_additional_nodes \X all_additional_nodes :
           /\ <<u, p[1]>> \in joined
           /\ <<p[1], p[2]>> \in joined
           /\ <<p[2], v>> \in joined}

\* ---------------------------------------------------------------------- C1
\* C1: when apply_restriction is called with a valid batch on a graph that
\* holds no artifacts, whose edges have lower bound 0 and pairwise distinct
\* endpoint pairs, and remove_artificial_artifact follows, the node list and
\* the edge list hold, as sets, what they held when apply_restriction was
\* called; a second remove_artificial_artifact then leaves the graph and the
\* ledger as it found them.
C1_CleanupRestoresGraph ==
    /\ (/\ TrailEnds(<<"apply", "cleanup">>)
        /\ at_apply.add_nodes = {} /\ at_apply.add_edges = <<>>
        /\ PlainGraph(at_apply.edges))
        => /\ Range(ts_nodes) = Range(at_apply.nodes)
           /\ Range(ts_edges) = Range(at_apply.edges)
    /\ TrailEnds(<<"apply", "cleanup", "cleanup">>)
        => /\ Snapshot.nodes = at_call.nodes
           /\ Snapshot.map = at_call.map
           /\ Snapshot.edges = at_call.edges
           /\ Ledger(Snapshot) = Ledger(at_call)

\* An apply that built artifacts and removed omega edges, then two cleanups.
C1_Witness ==
    /\ TrailEnds(<<"apply", "cleanup", "cleanup">>)
    /\ allocated # <<>>
    /\ at_apply.add_nodes = {}
    /\ PlainGraph(at_apply.edges)
    /\ Range(ts_edges) = Range(at_apply.edges)
    /\ ts_edges # at_apply.edges

\* ---------------------------------------------------------------------- C2
\* C2: a pass of the loop for a restriction with non-empty omega and virtual
\* flow 0 changes nothing in the ledger (additional nodes, additional edges,
\* aggregate omega, virtual demands), and the commit of a batch leaves every
\* omega edge of such a restriction in the live edge list.
C2_NaturalSatisfactionLeavesNoTrace ==
    [][/\ (pc = "loop" /\ loc'.ran /\ loc'.omega # <<>> /\ loc'.virtual_flow = 0)
           => UNCHANGED ledger_vars
       /\ pc = "commit"
           => \A i \in DOMAIN restrictions :
                 (omega_of(restrictions[i], pre_batch.edges) # <<>>
                    /\ virtual_flow_of(restrictions[i], pre_batch.edges) = 0)
                 => Range(omega_of(restrictions[i], pre_batch.edges))
                       \subseteq Range(ts_edges')]_vars

\* A batch was committed in which one restriction was satisfied naturally and
\* another one built artifacts; an omega edge of the former is gone.
C2_Witness ==
    /\ TrailEnds(<<"apply">>)
    /\ all_additional_edges # <<>>
    /\ \E i \in DOMAIN restrictions :
          /\ omega_of(restrictions[i], pre_batch.edges) # <<>>
          /\ virtual_flow_of(restrictions[i], pre_batch.edges) = 0
          /\ ~(Range(omega_of(restrictions[i], pre_batch.edges))
                  \subseteq Range(ts_edges))

\* ---------------------------------------------------------------------- C3
\* C3: the omega of a restriction holds exactly the live edges (s, d) with
\* (spatial_of(s), spatial_of(d)) in the restriction's spatial edge set,
\* time_of(s) < end and time_of(d) > start, each once, as (s, d, 0, capacity,
\* cost); an edge with time_of(d) = start or time_of(s) = end is left out, and
\* when no edge matches omega is the empty list.
C3_OmegaIsSpatioTemporalFilter ==
    (pc \in {"loop", "commit"} /\ loc.ran)
        => LET r == restrictions[idx - 1]
               matching ==
                   {e \in Range(ts_edges) :
                       /\ \E i \in DOMAIN r.edges :
                             /\ r.edges[i][1] = spatial_of(e[1])
                             /\ r.edges[i][2] = spatial_of(e[2])
                       /\ time_of(e[1]) < r.tf[2]
                       /\ time_of(e[2]) > r.tf[1]}
           IN /\ Range(loc.omega) = {<<e[1], e[2], 0, e[4], e[5]>> : e \in matching}
              /\ Len(loc.omega) = Cardinality(matching)

\* A non-empty omega was extracted while a live edge of a restricted spatial
\* pair ends exactly at the timeframe's start or starts exactly at its end.
C3_Witness ==
    /\ pc \in {"loop", "commit"} /\ loc.ran /\ loc.omega # <<>>
    /\ LET r == restrictions[idx - 1]
       IN \E e \in Range(ts_edges) :
             /\ \E i \in DOMAIN r.edges :
                   /\ r.edges[i][1] = spatial_of(e[1])
                   /\ r.edges[i][2] = spatial_of(e[2])
             /\ time_of(e[2]) = r.tf[1] \/ time_of(e[1]) = r.tf[2]
             /\ \A k \in DOMAIN loc.omega : Pair(loc.omega[k]) # Pair(e)

\* ---------------------------------------------------------------------- C4
\* C4: a pass of the loop that builds artifacts for an omega of n edges adds
\* 2 + 2n node ids, none in the graph before, and 5n + 1 edges to the ledger;
\* the j-th omega edge (u, v, 0, cap, cost) gets two ids v_i1, v_i2 of its own
\* and the five edges (u, v_i1, 0, cap, cost), (v_i1, v_i2, 0, cap, 0),
\* (v_i2, v, 0, cap, 0), (vS_global, v_i1, 0, cap, 0), (v_i2, vD_global, 0, cap, 0).
C4_FiveEdgesPerOmegaEdge ==
    [][BuildStep =>
        LET omega == loc'.omega
            n == Len(omega)
            vS == loc'.vS
            vD == loc'.vD
            i1(j) == NewEdges[5 * j - 4][2]
            i2(j) == NewEdges[5 * j - 3][2]
        IN /\ Cardinality(NewNodes) = 2 + 2 * n
           /\ NewNodes \cap (Range(ts_nodes) \cup map_nodes) = {}
           /\ Len(NewEdges) = 5 * n + 1
           /\ NewNodes = {vS, vD} \cup {i1(j) : j \in 1..n} \cup {i2(j) : j \in 1..n}
           /\ \A j \in 1..n :
                 LET u == omega[j][1]
                     v == omega[j][2]
                     cap == omega[j][4]
                     cost == omega[j][5]
                 IN /\ omega[j][3] = 0
                    /\ SubSeq(NewEdges, 5 * j - 4, 5 * j) =
                          << <<u, i1(j), 0, cap, cost>>,
                             <<i1(j), i2(j), 0, cap, 0>>,
                             <<i2(j), v, 0, cap, 0>>,
                             <<vS, i1(j), 0, cap, 0>>,
                             <<i2(j), vD, 0, cap, 0>> >>]_vars

\* Artifacts were built for an omega of three edges.
C4_Witness ==
    /\ pc \in {"loop", "commit"} /\ loc.built
    /\ Len(loc.omega) = 3
    /\ Cardinality(all_additional_nodes) = 8
    /\ Len(all_additional_edges) = 16

\* ---------------------------------------------------------------------- C5
\* C5: a pass of the loop that builds artifacts records exactly one edge from
\* vS_global to vD_global, the escape edge (vS_global, vD_global, 0,
\* virtual_flow, gamma) with virtual_flow = F - U and gamma the resolved
\* penalty; every other edge it records has cost 0 or starts at the source of
\* an omega edge and has that edge's cost.
C5_OneEscapeEdge ==
    [][BuildStep =>
        LET esc == <<loc'.vS, loc'.vD, 0, loc'.F - restrictions[idx].U, loc'.gamma>>
        IN /\ loc'.virtual_flow = loc'.F - restrictions[idx].U
           /\ loc'.virtual_flow > 0
           /\ Cardinality({i \in DOMAIN NewEdges :
                             Pair(NewEdges[i]) = <<loc'.vS, loc'.vD>>}) = 1
           /\ \E i \in DOMAIN NewEdges : NewEdges[i] = esc
           /\ \A i \in DOMAIN NewEdges :
                 NewEdges[i] # esc =>
                    \/ NewEdges[i][5] = 0
                    \/ \E j \in DOMAIN loc'.omega :
                          /\ NewEdges[i][1] = loc'.omega[j][1]
                          /\ NewEdges[i][5] = loc'.omega[j][5]]_vars

\* Artifacts were built with a penalty derived from the edge costs; the
\* escape edge is in the ledger.
C5_Witness ==
    /\ pc \in {"loop", "commit"} /\ loc.built
    /\ restrictions[idx - 1].gamma = <<>>
    /\ loc.gamma > DefaultMinGamma
    /\ \E i \in DOMAIN all_additional_edges :
          all_additional_edges[i] = <<loc.vS, loc.vD, 0, loc.virtual_flow, loc.gamma>>

\* ---------------------------------------------------------------------- C6
\* C6: every node id allocated by an apply_restriction call is greater than
\* get_max_id() as read before the batch, no id is allocated twice in the
\* call, and none is the id of a node or edge endpoint the graph held before
\* the batch; the ids allocated are the ledger's additional nodes.  The same
\* holds for a call that follows an earlier apply and cleanup.
C6_FreshDistinctIds ==
    /\ \A i \in DOMAIN allocated : allocated[i] > pre_batch.max_id
    /\ Range(allocated) \cap Range(pre_batch.nodes) = {}
    /\ Range(allocated) \cap Endpoints(pre_batch.edges) = {}
    /\ Cardinality(Range(allocated)) = Len(allocated)
    /\ (pc \in {"loop", "commit"} \/ TrailEnds(<<"apply">>))
          => all_additional_nodes = Range(allocated)

\* The second of two apply cycles on the same graph allocated ids for two
\* restrictions.
C6_Witness ==
    /\ TrailEnds(<<"apply", "cleanup", "apply">>)
    /\ Len(restrictions) = 2
    /\ Len(allocated) = 8
    /\ Cardinality(all_additional_nodes) = 8

\* ---------------------------------------------------------------------- C7
\* C7: while apply_restriction runs its loop and until its commit, the live
\* edge list is the one the batch started with; the omega and the max flow of
\* every restriction are those of that pre-batch edge list.
C7_LoopReadsPreBatchGraph ==
    (pc \in {"loop", "commit"})
        => /\ ts_edges = pre_batch.edges
           /\ loc.ran =>
                 /\ loc.omega = omega_of(restrictions[idx - 1], pre_batch.edges)
                 /\ loc.omega # <<>> =>
                       loc.F = max_flow_of(restrictions[idx - 1], pre_batch.edges)

\* The second restriction of a batch was processed after the first one had
\* built its artifacts; both built.
C7_Witness ==
    /\ pc = "commit"
    /\ Len(restrictions) = 2
    /\ loc.built
    /\ Len(all_additional_edges) > 5 * Len(loc.omega) + 1

\* ---------------------------------------------------------------------- C8
\* C8: after an apply_restriction call that recorded additional edges, the
\* live edges are, as a set, the pre-batch edges without those whose
\* (source, dest) pair occurs in the aggregate omega, together with the
\* additional edges; after a call that recorded none the edge list is the
\* pre-batch one.
C8_CommitSwapsEdges ==
    TrailEnds(<<"apply">>)
        => IF all_additional_edges # <<>>
           THEN Range(ts_edges) =
                   {e \in Range(pre_batch.edges) :
                       \A i \in DOMAIN self_omega : Pair(self_omega[i]) # Pair(e)}
                     \cup Range(all_additional_edges)
           ELSE ts_edges = pre_batch.edges

\* A call recorded additional edges and a pre-batch edge left the live list.
C8_Witness ==
    /\ TrailEnds(<<"apply">>)
    /\ all_additional_edges # <<>>
    /\ \E e \in Range(pre_batch.edges) : e \notin Range(ts_edges)
    /\ Range(all_additional_edges) \subseteq Range(ts_edges)

\* ---------------------------------------------------------------------- C9
\* C9: a second apply_restriction call with the same batch leaves the node
\* and edge lists, as sets, and the ledger (additional nodes, additional
\* edges, aggregate omega, virtual demands) as the first call left them.
C9_ReapplyChangesNothing ==
    TrailEnds(<<"apply", "apply">>)
        => /\ Range(ts_nodes) = Range(at_apply.nodes)
           /\ Range(ts_edges) = Range(at_apply.edges)
           /\ Ledger(Snapshot) = Ledger(at_apply)

\* The batch was applied twice, some restriction in it has a non-empty omega
\* and virtual flow 0, and the aggregate omega grew.
C9_Witness ==
    /\ TrailEnds(<<"apply", "apply">>)
    /\ \E i \in DOMAIN restrictions :
          /\ omega_of(restrictions[i], pre_batch.edges) # <<>>
          /\ virtual_flow_of(restrictions[i], pre_batch.edges) = 0
    /\ Len(self_omega) > Len(at_apply.omega)

\* --------------------------------------------------------------------- C10
\* C10: after an apply_restriction call no edge of the pre-batch graph has
\* more than one replacement path u -> v_i1 -> v_i2 -> v in the ledger, also
\* when the omegas of two restrictions of the batch share that edge.
C10_OneReplacementPathPerEdge ==
    TrailEnds(<<"apply">>)
        => \A e \in Range(pre_batch.edges) :
              Cardinality(ReplacementPaths(e[1], e[2])) <= 1

\* Two restrictions of the batch share an omega edge, both built artifacts,
\* and that edge has two replacement paths.
C10_Witness ==
    /\ TrailEnds(<<"apply">>)
    /\ Len(restrictions) = 2
    /\ \E e \in Range(omega_of(restrictions[1], pre_batch.edges))
                  \cap Range(omega_of(restrictions[2], pre_batch.edges)) :
          Cardinality(ReplacementPaths(e[1], e[2])) = 2

\* --------------------------------------------------------------------- C11
\* C11: when remove_artificial_artifact has returned, the additional nodes,
\* the additional edges, the aggregate omega and the virtual demands are all
\* empty, whatever the ledger held before, also when the aggregate omega was
\* non-empty while no additional edge was recorded.
C11_CleanupEmptiesLedger ==
    TrailEnds(<<"cleanup">>)
        => /\ all_additional_nodes = {}
           /\ all_additional_edges = <<>>
           /\ self_omega = <<>>
           /\ DOMAIN virtual_node_demands = {}

\* A cleanup ran on a ledger whose aggregate omega was non-empty while it
\* held no additional edge.
C11_Witness ==
    /\ TrailEnds(<<"cleanup">>)
    /\ at_call.omega # <<>>
    /\ at_call.add_edges = <<>>
    /\ self_omega = <<>>

\* --------------------------------------------------------------------- C12
\* The live edges that restriction r restricts, by the spec's rule.
Restricted(r, edges) ==
    {e \in Range(edges) :
        /\ \E i \in DOMAIN r.edges :
              /\ r.edges[i][1] = spatial_of(e[1])
              /\ r.edges[i][2] = spatial_of(e[2])
        /\ time_of(e[1]) < r.tf[2]
        /\ time_of(e[2]) > r.tf[1]}

\* C12: a pass of the loop for a restriction that no live edge matches
\* changes neither the ledger nor the graph (so get_max_id() too is as
\* before), leaves the id allocator where it was, and hands over to the next
\* restriction of the batch, or to the commit after the last one.
C12_EmptyOmegaIsNoOp ==
    [][(pc = "loop" /\ Restricted(restrictions[idx], ts_edges) = {})
        => /\ UNCHANGED <<ledger_vars, graph_vars, max_node_id_val, allocated>>
           /\ get_max_id(ts_nodes', ts_edges') = get_max_id(ts_nodes, ts_edges)
           /\ idx' = idx + 1
           /\ pc' = IF idx < Len(restrictions) THEN "loop" ELSE "commit"]_vars

\* The first restriction of a batch matched no edge and the second one built
\* its artifacts, with the first ids after the pre-batch maximum.
C12_Witness ==
    /\ pc = "commit"
    /\ Len(restrictions) = 2
    /\ Restricted(restrictions[1], pre_batch.edges) = {}
    /\ loc.built
    /\ loc.vS = pre_batch.max_id + 1

\* --------------------------------------------------------------------- C13
\* C13: when apply_restriction has returned, every additional node id is in
\* the node list and is an endpoint of some live edge, and after a call that
\* processed a batch every endpoint of a live edge above the pre-batch
\* maximum id is an additional node id; when
\* remove_artificial_artifact has returned, no id that was an additional node
\* is left in the node list, in the id-to-node map or at an end of a live
\* edge.
C13_NoDanglingArtificialNodes ==
    /\ (TrailEnds(<<"apply">>) \/ TrailEnds(<<"apply_returned">>))
          => /\ all_additional_nodes \subseteq Range(ts_nodes)
             /\ all_additional_nodes \subseteq Endpoints(ts_edges)
    /\ TrailEnds(<<"apply">>)
          => {n \in Endpoints(ts_edges) : n > pre_batch.max_id}
                \subseteq all_additional_nodes
    /\ TrailEnds(<<"cleanup">>)
          => /\ Range(ts_nodes) \cap at_call.add_nodes = {}
             /\ map_nodes \cap at_call.add_nodes = {}
             /\ Endpoints(ts_edges) \cap at_call.add_nodes = {}

\* A cleanup ran on a graph that held the artificial nodes of an apply, in
\* its node list, its map and its edges.
C13_Witness ==
    /\ TrailEnds(<<"apply", "cleanup">>)
    /\ at_call.add_nodes # {}
    /\ at_call.add_nodes \subseteq Range(at_call.nodes)
    /\ at_call.add_nodes \subseteq at_call.map
    /\ at_call.add_nodes \subseteq Endpoints(at_call.edges)
    /\ Range(ts_nodes) \cap at_call.add_nodes = {}

\* --------------------------------------------------------------------- C18
\* A restriction spec is well formed: a non-empty list of two-endpoint edges,
\* a timeframe of two values with start <= end, and U >= 0.
WellFormed(r) ==
    /\ r.edges # <<>>
    /\ \A i \in DOMAIN r.edges : Len(r.edges[i]) = 2
    /\ Len(r.tf) = 2
    /\ r.tf[1] <= r.tf[2]
    /\ r.U >= 0

C20_DistinctEndpointPairs ==
    Cardinality({Pair(ts_edges[i]) : i \in DOMAIN ts_edges}) = Len(ts_edges)

\* A second batch was applied to a graph that an apply and a cleanup had
\* gone over: the restored omega edges sit at the end of the edge list's
\* original part and artifacts were built again.
C20_Witness ==
    /\ TrailEnds(<<"apply", "cleanup", "apply">>)
    /\ all_additional_edges # <<>>
    /\ pre_batch.edges # BaseGraph
    /\ Range(pre_batch.edges) = Range(BaseGraph)
    /\ Len(ts_edges) > Len(BaseGraph)

\* C17: validate_restriction answers TRUE exactly when the edge list is not
\* empty, every edge has two endpoints, the timeframe has two values with
\* start <= end, and U >= 0; it answers FALSE for every other input.
C17_ValidateRestrictionExact ==
    (arg # <<>> /\ arg[1] = "validate_restriction") =>
        LET restriction_edges == arg[2]
            timeframe == arg[3]
            U == arg[4]
        IN  /\ ret \in BOOLEAN
            /\ ret <=> /\ Len(restriction_edges) > 0
                       /\ \A i \in 1..Len(restriction_edges) :
                            Len(restriction_edges[i]) = 2
                       /\ Len(timeframe) = 2
                       /\ Len(timeframe) = 2 => timeframe[1] <= timeframe[2]
                       /\ U >= 0

\* A spec with U = 0 and start = end is accepted.
C17_Witness ==
    /\ arg # <<>>
    /\ arg[1] = "validate_restriction"
    /\ arg[4] = 0
    /\ Len(arg[3]) = 2
    /\ arg[3][1] = arg[3][2]
    /\ ret = TRUE

\* The flow the solver assigned to the arcs from source to dest of a file.
Assigned(tsg_file, flow, source, dest) ==
    SeqSum([i \in DOMAIN tsg_file |->
               IF tsg_file[i][1] = source /\ tsg_file[i][2] = dest
               THEN flow[i] ELSE 0])

\* The escape edges of a file that carry flow, in the file's order, when the
\* escape edges are those the detector names.
Violating(tsg_file, flow) ==
    SelectSeq(detect_escape_edges(tsg_file),
              LAMBDA e : Assigned(tsg_file, flow, e.source, e.dest) > 0)

\* C14: an analysis whose solve succeeded reports one violation per escape
\* edge with flow > 0, with penalty_cost = flow * gamma_cost, and the summary
\* asked for after it gives the count, total flow, total penalty and
\* endpoint pairs of exactly those violations.
C14_SummaryOfTheAnalysedViolations ==
    (/\ arg # <<>>
     /\ arg[1] \in {"analyze_current_violations", "get_violation_summary"}
     /\ ~arg[3].raised) =>
        LET tsg_file == arg[2]
            flow == arg[3].flow
            hit == Violating(tsg_file, flow)
            f(i) == Assigned(tsg_file, flow, hit[i].source, hit[i].dest)
        IN  IF arg[1] = "analyze_current_violations"
            THEN /\ Len(ret.value) = Len(hit)
                 /\ \A i \in DOMAIN hit :
                      /\ ret.value[i].source = hit[i].source
                      /\ ret.value[i].dest = hit[i].dest
                      /\ ret.value[i].flow = f(i)
                      /\ ret.value[i].penalty_cost = f(i) * hit[i].cost
            ELSE /\ ret.value.violations_count = Len(hit)
                 /\ ret.value.total_violation_flow =
                        SeqSum([i \in DOMAIN hit |-> f(i)])
                 /\ ret.value.total_penalty_cost =
                        SeqSum([i \in DOMAIN hit |-> f(i) * hit[i].cost])
                 /\ ret.value.violated_edges =
                        [i \in DOMAIN hit |-> <<hit[i].source, hit[i].dest>>]

\* What one analysis returns, taken alone: one violation per escape edge
\* that carries flow, priced at flow * gamma_cost.
C14_AnalysisReportsFlowingEscapeEdges ==
    (/\ arg # <<>>
     /\ arg[1] = "analyze_current_violations"
     /\ ~arg[3].raised) =>
        LET hit == Violating(arg[2], arg[3].flow)
        IN  /\ Len(ret.value) = Len(hit)
            /\ \A i \in DOMAIN hit :
                 ret.value[i].penalty_cost =
                    Assigned(arg[2], arg[3].flow, hit[i].source, hit[i].dest)
                    * hit[i].cost

\* The escape edge carries flow 2 at gamma 200 and is reported at 400.
C14_Witness ==
    /\ arg # <<>>
    /\ arg[1] = "analyze_current_violations"
    /\ arg[2] = TSGOne
    /\ ~arg[3].raised
    /\ Len(ret.value) = 1
    /\ ret.value[1].flow = 2
    /\ ret.value[1].penalty_cost = 400

\* C16: when the solve of an analysis raises, the caller of the analysis
\* gets an error outcome, not a violation list.
C16_SolverFailureReachesCaller ==
    (/\ arg # <<>>
     /\ arg[1] = "analyze_current_violations"
     /\ detect_escape_edges(arg[2]) # <<>>
     /\ arg[3].raised) => ret.raised

\* The solve raised on a file with an escape edge and the analysis returned
\* the empty list.
C16_Witness ==
    /\ arg # <<>>
    /\ arg[1] = "analyze_current_violations"
    /\ arg[2] = TSGOne
    /\ arg[3].raised
    /\ ret = [raised |-> FALSE, value |-> <<>>]

\* The escape edges apply_restriction has put in the graph: the recorded
\* edges from a vS_global (positive virtual demand) to a vD_global (negative
\* virtual demand).
EscapeEdgesCreated ==
    {e \in Range(all_additional_edges) :
        /\ e[1] \in DOMAIN virtual_node_demands
        /\ e[2] \in DOMAIN virtual_node_demands
        /\ virtual_node_demands[e[1]] > 0
        /\ virtual_node_demands[e[2]] < 0}

\* The arcs a detector names, as endpoint pairs with their cost.
Named(escape_edges) ==
    {<<escape_edges[i].source, escape_edges[i].dest, escape_edges[i].cost>> :
        i \in DOMAIN escape_edges}

\* C15: on the graph an apply_restriction call leaves, each detector names
\* exactly the escape edges the call created, none missed and no other edge
\* included.
C15_DetectorsNameTheEscapeEdges ==
    TrailEnds(<<"apply">>) =>
        /\ Named(detect_escape_edges(ts_edges))
              = {<<e[1], e[2], e[5]>> : e \in EscapeEdgesCreated}
        /\ Named(detect_escape_edges_master(ts_edges))
              = {<<e[1], e[2], e[5]>> : e \in EscapeEdgesCreated}

\* An apply left an escape edge in the graph and the integrator's detector
\* names no arc.
C15_Witness ==
    /\ TrailEnds(<<"apply">>)
    /\ EscapeEdgesCreated # {}
    /\ EscapeEdgesCreated \subseteq Range(ts_edges)
    /\ detect_escape_edges(ts_edges) = <<>>

\* C19: remove_artificial_artifact can always be called and, whatever ids
\* and pairs its ledger named, it has removed the named nodes and the edges
\* of the named pairs that were in the graph, and has left every other node
\* and edge as it was and where it was; what it appends are omega edges of
\* the ledger.
C19_CleanupToleratesMissingArtifacts ==
    /\ (pc = "idle" /\ calls < MaxCalls) => ENABLED RemoveArtificialArtifact
    /\ TrailEnds(<<"cleanup">>) =>
         LET named == {Pair(at_call.add_edges[i]) : i \in DOMAIN at_call.add_edges}
             kept == SelectSeq(at_call.edges, LAMBDA e : Pair(e) \notin named)
         IN  /\ ts_nodes = SelectSeq(at_call.nodes,
                                     LAMBDA n : n \notin at_call.add_nodes)
             /\ map_nodes = at_call.map \ at_call.add_nodes
             /\ Len(ts_edges) >= Len(kept)
             /\ SubSeq(ts_edges, 1, Len(kept)) = kept
             /\ \A i \in (Len(kept) + 1)..Len(ts_edges) :
                    ts_edges[i] \in Range(at_call.omega)

\* The ledger named a node and a pair that were in the graph and a node and
\* a pair that were not.
C19_Witness ==
    /\ TrailEnds(<<"cleanup">>)
    /\ at_call.add_nodes \cap Range(at_call.nodes) # {}
    /\ at_call.add_nodes \ Range(at_call.nodes) # {}
    /\ \E i, j \in DOMAIN at_call.add_edges :
          /\ \E k \in DOMAIN at_call.edges :
                Pair(at_call.edges[k]) = Pair(at_call.add_edges[i])
          /\ \A k \in DOMAIN at_call.edges :
                Pair(at_call.edges[k]) # Pair(at_call.add_edges[j])
    /\ Len(ts_edges) < Len(at_call.edges)

\* --------------------------------------------------------------------- C25
\* C25: for every node id >= 1 and every number M >= 1 of spatial nodes,
\* _get_node_time(id) is (id - 1) div M and _get_node_coordinates(id) is
\* ((id - 1) mod M) + 1, also when id is a multiple of M.
C25_IndexerMatchesFormula ==
    (arg # <<>> /\ arg[1] = "_get_node_time") =>
        /\ ret[1] = (arg[2] - 1) \div arg[3]
        /\ ret[2] = ((arg[2] - 1) % arg[3]) + 1

\* The id is a multiple of M = 3 and lies in the last column of its row.
C25_Witness ==
    /\ arg # <<>>
    /\ arg[1] = "_get_node_time"
    /\ arg[2] = 6
    /\ arg[3] = 3
    /\ ret = <<1, 3>>

\* --------------------------------------------------------------------- C26
\* C26: calculate_virtual_flow(max_flow, U) is max(0, max_flow - U) on
\* non-negative integers: never negative, 0 when max_flow <= U, and
\* max_flow - U otherwise.
C26_VirtualFlowIsClampedDifference ==
    (arg # <<>> /\ arg[1] = "calculate_virtual_flow") =>
        /\ ret >= 0
        /\ arg[2] <= arg[3] => ret = 0
        /\ arg[2] > arg[3] => ret = arg[2] - arg[3]

\* A threshold above the max flow gives 0.
C26_Witness ==
    /\ arg # <<>>
    /\ arg[1] = "calculate_virtual_flow"
    /\ arg[2] = 3
    /\ arg[3] = 4
    /\ ret = 0

\* --------------------------------------------------------------------- C23
\* The rational x is n quarters.
IsQuarters(x, n) == 4 * x[1] = n * x[2]

\* C23: on an edge list without a costed edge, the empty list included,
\* calculate_default_gamma returns max(k * 10 * max(1, priority), min_gamma).
C23_FallbackMeanIsTen ==
    (/\ arg # <<>>
     /\ arg[1] = "calculate_default_gamma"
     /\ \A i \in DOMAIN arg[2] : arg[2][i][5] = NoCost) =>
        IsQuarters(ret, Max2(arg[4] * FallbackMeanCost * Max2(2, arg[3]),
                             2 * arg[5]))

\* The same for the lists that hold an edge, none of them costed.
C23_FallbackOnUncostedEdges ==
    (/\ arg # <<>>
     /\ arg[1] = "calculate_default_gamma"
     /\ arg[2] # <<>>
     /\ \A i \in DOMAIN arg[2] : arg[2][i][5] = NoCost) =>
        IsQuarters(ret, Max2(arg[4] * FallbackMeanCost * Max2(2, arg[3]),
                             2 * arg[5]))

\* The empty list with k = 60, priority 1 and min_gamma 200: 600 is due and
\* 200 is returned.
C23_Witness ==
    /\ arg = <<"calculate_default_gamma", <<>>, 2, 120, 400>>
    /\ IsQuarters(ret, 2 * 400)

\* --------------------------------------------------------------------- C24
\* defaultdict(int): the value of a key that was never written is 0.
DictGet(d, key) == IF key \in DOMAIN d THEN d[key] ELSE 0

\* C24: restricted_nodes is the set of the endpoints of the omega edges;
\* incoming[v] is the capacity sum of the graph's edges that enter the
\* restricted node v from an unrestricted node, outgoing[u] that of the edges
\* that leave the restricted node u for an unrestricted node; no other edge
\* and no other node has a part in either map.
C24_BoundaryCapacities ==
    (arg # <<>> /\ arg[1] = "identify_restricted_nodes") =>
        LET TSG == arg[2]
            omega == arg[3]
            R == ret.restricted_nodes
            into(v) == SeqSum([i \in DOMAIN TSG |->
                          IF TSG[i][2] = v /\ TSG[i][1] \notin R
                          THEN TSG[i][4] ELSE 0])
            outof(u) == SeqSum([i \in DOMAIN TSG |->
                          IF TSG[i][1] = u /\ TSG[i][2] \notin R
                          THEN TSG[i][4] ELSE 0])
        IN  /\ R = Endpoints(omega)
            /\ DOMAIN ret.incoming \subseteq R
            /\ DOMAIN ret.outgoing \subseteq R
            /\ \A v \in R : DictGet(ret.incoming, v) = into(v)
            /\ \A u \in R : DictGet(ret.outgoing, u) = outof(u)

\* Node 5 is entered from outside by two edges, (2,5) and (4,5), while the
\* omega edge (5,8) lies inside.
C24_Witness ==
    /\ arg # <<>>
    /\ arg[1] = "identify_restricted_nodes"
    /\ arg[3] = << <<5, 8, 0, 1, 10>> >>
    /\ ret.restricted_nodes = {5, 8}
    /\ DictGet(ret.incoming, 5) = 3
    /\ DictGet(ret.incoming, 8) = 1
    /\ DOMAIN ret.outgoing = {}

\* --------------------------------------------------------------------- C27
\* The step from the call of apply_restriction to the start of its loop, or
\* to its early return.
ApplyEntered ==
    /\ pc = "idle"
    /\ calls' = calls + 1
    /\ pc' = "loop" \/ (pc' = "idle" /\ trail'[Len(trail')] = "apply_returned")

\* The graph holds nothing of the ledger the call met, and the ledger's
\* omega edges are in the edge list.
PreviousCycleRemoved ==
    /\ Range(ts_nodes') \cap all_additional_nodes = {}
    /\ map_nodes' \cap all_additional_nodes = {}
    /\ \A i \in DOMAIN ts_edges' :
          Pair(ts_edges'[i]) \notin additional_edges_set(all_additional_edges)
    /\ Range(self_omega) \subseteq Range(ts_edges')

\* C27: an apply_restriction call that meets a non-empty ledger first removes
\* the previous cycle's artificial nodes and additional edges from the live
\* graph and puts the omega edges back, also when the batch it reads is empty
\* or holds no valid restriction.
C27_PreviousCycleRemovedFirst ==
    [][(ApplyEntered
          /\ (all_additional_nodes # {} \/ all_additional_edges # <<>>))
        => PreviousCycleRemoved]_vars

\* The same for the calls that read at least one valid restriction.
C27_PreviousCycleRemovedBeforeLoop ==
    [][(ApplyEntered /\ pc' = "loop"
          /\ (all_additional_nodes # {} \/ all_additional_edges # <<>>))
        => PreviousCycleRemoved]_vars

\* A call that read an empty batch has returned, and the artifacts of the
\* cycle before it are in the graph and in the ledger.
C27_Witness ==
    /\ pc = "idle"
    /\ trail # <<>>
    /\ trail[Len(trail)] = "apply_returned"
    /\ restrictions = <<>>
    /\ all_additional_nodes # {}
    /\ all_additional_nodes \subseteq Range(ts_nodes)
    /\ Range(all_additional_edges) \subseteq Range(ts_edges)
    /\ \E e \in Range(self_omega) : e \notin Range(ts_edges)

\* --------------------------------------------------------------------- C28
\* How often x occurs in the list s.
Count(s, x) == Cardinality({i \in DOMAIN s : s[i] = x})

\* The two lists hold the same elements, each as often.
SameContents(a, b) ==
    \A x \in Range(a) \cup Range(b) : Count(a, x) = Count(b, x)

\* The step in which the cleanup runs, directly or at the start of the next
\* apply_restriction, after an apply_restriction that ended in an exception
\* with artifacts recorded.
CleanupAfterRaise ==
    /\ pc = "idle"
    /\ trail # <<>>
    /\ trail[Len(trail)] = "apply_raised"
    /\ all_additional_edges # <<>>
    /\ calls' = calls + 1
    /\ pc' = "loop" \/ trail'[Len(trail')] = "cleanup"

\* C28: when calculate_max_flow raised in a pass of the loop after an earlier
\* pass of the same batch had recorded artifacts, the next cleanup
\* (remove_artificial_artifact, or the one at the start of the next
\* apply_restriction) leaves the node list and the edge list with their
\* pre-batch contents, every original edge exactly once.
C28_CleanupAfterRaiseRestoresGraph ==
    [][CleanupAfterRaise
        => /\ SameContents(ts_nodes', pre_batch.nodes)
           /\ SameContents(ts_edges', pre_batch.edges)]_vars

\* What the cleanup does restore: the nodes, and the edges as a set.
C28_CleanupAfterRaiseRestoresSets ==
    [][CleanupAfterRaise
        => /\ SameContents(ts_nodes', pre_batch.nodes)
           /\ Range(ts_edges') = Range(pre_batch.edges)]_vars

\* remove_artificial_artifact has run after such an exception: the nodes are
\* those of the pre-batch graph and an original edge is in the list twice.
C28_Witness ==
    /\ TrailEnds(<<"apply_raised", "cleanup">>)
    /\ at_call.add_edges # <<>>
    /\ ts_nodes = pre_batch.nodes
    /\ \E e \in Range(pre_batch.edges) : Count(ts_edges, e) = 2

\* --------------------------------------------------------------------- C22
\* The cost of the escape edge built by the pass of the loop just taken.
EscapeCost ==
    LET esc == {i \in DOMAIN NewEdges : Pair(NewEdges[i]) = <<loc'.vS, loc'.vD>>}
    IN  NewEdges[CHOOSE i \in esc : TRUE][5]

\* c is the integer nearest to num / den, the even one of two nearest.
IsRounded(c, num, den) ==
    LET d == IF c * den >= num THEN c * den - num ELSE num - c * den
    IN  /\ 2 * d <= den
        /\ 2 * d = den => c % 2 = 0

\* The penalty of restriction r on the edge list edges under the floor
\* floor (in halves), as a rational: the given gamma, or the greater of
\* k_factor * mean cost * max(1, priority) and the floor.
Penalty(r, edges, floor) ==
    IF r.gamma # <<>> THEN <<r.gamma[1], 2>>
    ELSE LET total == SeqSum([i \in DOMAIN edges |-> edges[i][5]])
             derived == <<r.k * total * (IF r.priority > 2 THEN r.priority ELSE 2),
                          4 * Len(edges)>>
         IN  IF 2 * derived[1] >= floor * derived[2] THEN derived
             ELSE <<floor, 2>>

\* C22 as stated: the escape edge of a processed restriction costs
\* round(gamma) when the restriction gives a gamma, whatever min_gamma is,
\* and otherwise round(max(k_factor * mean edge cost of the live graph
\* * max(1, priority), min_gamma)), which is never below min_gamma.
C22_EscapeCostNeverBelowFloor ==
    [][BuildStep =>
        LET r == restrictions[idx]
            x == Penalty(r, ts_edges, min_gamma)
        IN  /\ IsRounded(EscapeCost, x[1], x[2])
            /\ r.gamma = <<>> => 2 * EscapeCost >= min_gamma]_vars

\* C22 as amended: the escape edge of a processed restriction costs
\* round(gamma) when the restriction gives a gamma, whatever min_gamma is,
\* and otherwise round(max(k_factor * mean edge cost of the live graph
\* * max(1, priority), min_gamma)), which is never below round(min_gamma).
C22_EscapeCostIsRoundedPenalty ==
    [][BuildStep =>
        LET r == restrictions[idx]
            x == Penalty(r, ts_edges, min_gamma)
        IN  /\ IsRounded(EscapeCost, x[1], x[2])
            /\ r.gamma = <<>> => IsRounded(EscapeCost, min_gamma, 2)
                                    \/ 2 * EscapeCost > min_gamma]_vars

\* A batch was applied under the floor 200 in which one restriction gave the
\* gamma 150.0 and another had a derived penalty below the floor: the escape
\* edges cost 150 and 200.
C22_Witness ==
    /\ TrailEnds(<<"apply">>)
    /\ min_gamma = 2 * DefaultMinGamma
    /\ restrictions = <<RG, RH>>
    /\ {e[5] : e \in EscapeEdgesCreated} = {150, DefaultMinGamma}

\* --------------------------------------------------------------------- C30
\* The step is a set_gamma_value call.
GammaSet ==
    /\ pc = "idle"
    /\ pc' = "idle"
    /\ calls' = calls + 1
    /\ trail'[Len(trail')] = "set_gamma_value"

\* The stored restrictions after the step are those before it, in the same
\* order, with gamma g and nothing else changed.
OnlyGammaChanged(g) ==
    /\ DOMAIN restrictions' = DOMAIN restrictions
    /\ \A i \in DOMAIN restrictions :
          /\ restrictions'[i].gamma = <<g>>
          /\ restrictions'[i].edges = restrictions[i].edges
          /\ restrictions'[i].tf = restrictions[i].tf
          /\ restrictions'[i].U = restrictions[i].U
          /\ restrictions'[i].priority = restrictions[i].priority
          /\ restrictions'[i].k = restrictions[i].k

\* C30: set_gamma_value(g) gives every stored restriction the gamma g and
\* leaves its edges, timeframe, U, priority and k_factor and the order of
\* the restrictions alone, get_gamma_value() then returns g, the live graph
\* and the ledger are unchanged, and every escape edge of the next
\* apply_restriction costs round(g).
C30_SetGammaValueRulesNextApply ==
    [][/\ GammaSet
           => /\ OnlyGammaChanged(get_gamma_value')
              /\ UNCHANGED <<graph_vars, ledger_vars>>
       /\ (pc = "commit" /\ trail # <<>>
             /\ trail[Len(trail)] = "set_gamma_value")
           => \A e \in EscapeEdgesCreated' :
                 IsRounded(e[5], get_gamma_value', 2)]_vars

\* The frame of set_gamma_value alone.
C30_SetGammaValueFrame ==
    [][GammaSet
        => /\ \E g \in GammaValueArgs :
                 get_gamma_value' = g /\ OnlyGammaChanged(g)
           /\ UNCHANGED <<graph_vars, ledger_vars>>]_vars

\* set_gamma_value(300.5) was followed by apply_restriction, whose batch
\* gives the gamma 150.0: the stored restrictions have that gamma again and
\* the escape edge costs 150.
C30_Witness ==
    /\ TrailEnds(<<"set_gamma_value", "apply">>)
    /\ get_gamma_value = 601
    /\ RG \in Range(restrictions)
    /\ \E e \in EscapeEdgesCreated : e[5] = 150

\* --------------------------------------------------------------------- C21
\* The node ids of the graph the runs start from.
BaseNodes == 1..SetMax(Endpoints(BaseGraph))

\* The artificial nodes a replacement path joins to a base node: the v_i1
\* and v_i2 of the omega edges.
IntermediateNodes ==
    {n \in all_additional_nodes :
        \E e \in Range(all_additional_edges) :
           \/ e[1] = n /\ e[2] \in BaseNodes
           \/ e[2] = n /\ e[1] \in BaseNodes}

\* Between operations: only global virtual nodes have a demand, the demands
\* sum to zero, and after an apply_restriction every restriction of the batch
\* with virtual flow f > 0 has an escape edge of capacity f whose ends have
\* the demands +f and -f.
DemandsBalanced ==
    /\ DOMAIN virtual_node_demands
          \subseteq all_additional_nodes \ IntermediateNodes
    /\ DOMAIN virtual_node_demands \cap BaseNodes = {}
    /\ SetSum(virtual_node_demands, DOMAIN virtual_node_demands) = 0
    /\ TrailEnds(<<"apply">>)
          => \A i \in DOMAIN restrictions :
                \A f \in {virtual_flow_of(restrictions[i], pre_batch.edges)} :
                    f > 0
                    => \E e \in Range(all_additional_edges) :
                          /\ e[4] = f
                          /\ get_virtual_node_demand(e[1]) = f
                          /\ get_virtual_node_demand(e[2]) = -f

\* C21: a pass of the loop that builds artifacts writes +virtual_flow for
\* vS_global and -virtual_flow for vD_global into the ledger and leaves its
\* other demands alone; between operations no intermediate and no base node
\* has a demand, the demands sum to zero and every restriction processed
\* with virtual_flow > 0 has its pair of demands; get_virtual_node_demand
\* returns the ledger's demand of an id, 0 for an id the ledger does not
\* hold; writing into the dictionary get_virtual_node_demands returned
\* leaves the ledger's demands as they were.
C21_VirtualDemandLedger ==
    /\ [](pc = "idle" => DemandsBalanced)
    /\ [][/\ BuildStep
              => /\ loc'.virtual_flow > 0
                 /\ DOMAIN virtual_node_demands' =
                       DOMAIN virtual_node_demands \cup {loc'.vS, loc'.vD}
                 /\ virtual_node_demands'[loc'.vS] = loc'.virtual_flow
                 /\ virtual_node_demands'[loc'.vD] = -loc'.virtual_flow
                 /\ \A n \in DOMAIN virtual_node_demands :
                       virtual_node_demands'[n] = virtual_node_demands[n]
          /\ (arg = <<>> /\ arg' # <<>> /\ arg'[1] = "get_virtual_node_demand")
              => /\ UNCHANGED virtual_node_demands
                 /\ arg'[2] \notin DOMAIN virtual_node_demands => ret' = 0
                 /\ arg'[2] \in DOMAIN virtual_node_demands
                       => ret' = virtual_node_demands[arg'[2]]
          /\ (arg = <<>> /\ arg' = <<"get_virtual_node_demands">>)
              => /\ UNCHANGED virtual_node_demands
                 /\ ret'.value = virtual_node_demands
          /\ (arg = <<"get_virtual_node_demands">> /\ arg' # arg)
              => /\ UNCHANGED virtual_node_demands
                 /\ ret'.value # virtual_node_demands]_vars

\* After a batch of two restrictions with virtual flows 2 and 1 was applied,
\* the dictionary get_virtual_node_demands returned was written to, and the
\* ledger still holds the four demands.
C21_Witness ==
    /\ TrailEnds(<<"apply">>)
    /\ restrictions = <<RG, RH>>
    /\ arg = <<"get_virtual_node_demands", 10>>
    /\ ret.value[10] = CallerDemand
    /\ DOMAIN virtual_node_demands = {9, 10, 13, 14}
    /\ virtual_node_demands[9] = 2 /\ virtual_node_demands[10] = -2
    /\ virtual_node_demands[13] = 1 /\ virtual_node_demands[14] = -1

\* --------------------------------------------------------------------- C29
\* C29: when apply_restriction has processed a single restriction, every
\* flow that respects the capacities of the construction's edges,
\* conservation at the intermediate nodes and the demands +virtual_flow at
\* vS_global and -virtual_flow at vD_global puts at most virtual_flow on the
\* escape edge, and at most the sum of the omega capacities minus
\* virtual_flow plus the escape edge's flow on the edges (u, v_i1) together.
C29_EscapeEdgeBoundsCorridorFlow ==
    [][(arg = <<>> /\ arg' = <<"flow">>) =>
        LET edges == all_additional_edges
            vS == CHOOSE n \in DOMAIN virtual_node_demands :
                     virtual_node_demands[n] > 0
            vD == CHOOSE n \in DOMAIN virtual_node_demands :
                     virtual_node_demands[n] < 0
            virtual_flow == virtual_node_demands[vS]
            escape == SeqSum([i \in DOMAIN edges |->
                         IF Pair(edges[i]) = <<vS, vD>> THEN ret'[i] ELSE 0])
            entering == SeqSum([i \in DOMAIN edges |->
                           IF edges[i][1] \in BaseNodes THEN ret'[i] ELSE 0])
        IN  /\ DOMAIN ret' = DOMAIN edges
            /\ escape <= virtual_flow
            /\ entering <= SeqSum(Capacities(self_omega)) - virtual_flow
                               + escape]_vars

\* A flow on the construction of a restriction with three omega edges of
\* capacity 2 and virtual flow 1: nothing on the escape edge, and 5 units
\* enter the corridor.
C29_Witness ==
    /\ TrailEnds(<<"apply">>)
    /\ arg = <<"flow">>
    /\ restrictions = <<RD>>
    /\ Len(self_omega) = 3
    /\ virtual_node_demands[9] = 1
    /\ ret[Len(ret)] = 0
    /\ SeqSum([i \in DOMAIN ret |->
                 IF all_additional_edges[i][1] \in BaseNodes THEN ret[i] ELSE 0]) = 5

====
